---- MODULE Spec2Model ----
(***************************************************************************)
(* RepWise / RepWiseYolo: the per-exercise rule modules, the two live      *)
(* session drivers and the workout analyzer, as a state machine.           *)
(*                                                                         *)
(* Angles are whole degrees, pixel offsets whole pixels, confidences       *)
(* tenths (5 is 0.5), the Russian-twist rotation hundredths (15 is 0.15)   *)
(* and clock readings whole ticks.  A rule module is an operator over the  *)
(* metrics it derives from the landmarks with calculate_angle; the number  *)
(* that some feedback strings embed (str(int(angle)), format_duration) is  *)
(* written N, respectively mm:ss.mmm.                                      *)
(***************************************************************************)
EXTENDS Integers, Sequences, FiniteSets, TLC

VARIABLES
    driver,                 \* "mediapipe" (RepWise/main.py) or "yolo" (RepWiseYolo/main.py);
                            \* "mediapipe_recorded" or "yolo_recorded" when only
                            \* analyze_recorded_video runs; "none", "osc" or "helper"
                            \* when a function is called without a driver
    exercise_name,          \* the exercise selected for the session
    frames_read,            \* frames returned by cap.read() so far
    rep_count,              \* rep_counter / rep_or_duration of run_live_mode
    phase,                  \* exercise_state of run_live_mode
    last_feedback,          \* feedback_text of run_live_mode
    current_frame_feedback, \* the feedback shown for the frame just handled
    current_speech_text,    \* the speech text handed to speak_feedback
    analyzer,               \* the WorkoutAnalyzer's counters
    plank_start_time,       \* segment start of the plank timer, PLANK_STOPPED when paused
    now,                    \* the last reading of time.time()
    hip_height_history,     \* jump_squat.py's module-level history
    event,                  \* what the step just taken was
    quorum,                 \* detection result and anchor confidences of the frame just handled
    last_frame,             \* the metrics of the frame a rule module was last applied to
    held_true,              \* observer: summed length of the completed plank segments
    trail,                  \* observer: the phases held since the last counted rep
    osc,                    \* the oscillation experiment's parameters
    recorded,               \* the locals of analyze_recorded_video run on the same frames
    call,                   \* a helper function's arguments and what it returned
    video,                  \* the cv2.VideoCapture of analyze_recorded_video
    report,                 \* what the session's end displayed and wrote to its file
    speech,                 \* the text-to-speech globals and what was spoken
    buffers                 \* posture_corrector.py's module-level smoothing buffers

vars == << driver, exercise_name, frames_read, rep_count, phase, last_feedback,
           current_frame_feedback, current_speech_text, analyzer, plank_start_time,
           now, hip_height_history, event, quorum, last_frame, held_true, trail,
           osc, recorded, call, video, report, speech, buffers >>

(***************************************************************************)
(* Bounds of the model.                                                    *)
(***************************************************************************)
MaxFrames == 4
MaxThreePhaseFrames == 6
MaxModuleCalls == 2
MaxOscFrames == 6
MaxTick == 2
MaxVideoFrames == 3

(***************************************************************************)
(* What a rule module returns: (rep_counter, exercise_state, feedback_text *)
(* [, speech_text]).  The drivers set speech_text to "" for a 3-tuple.     *)
(***************************************************************************)
Res(r, s, f, sp) == [rep |-> r, state |-> s, fb |-> f, speech |-> sp]

(***************************************************************************)
(* Python's `in` on the feedback strings.  Contains(kw, s) is kw in s and  *)
(* ContainsLower(kw, s) is kw in s.lower(); both are tabulated over the    *)
(* feedback strings of the rule modules and drivers.                       *)
(***************************************************************************)
\* BEGIN-TABLES
ContainsTable ==
    {
      <<"back", "Chest up! Keep your back straight.">>,
      <<"back", "Good back form!">>,
      <<"back", "Hips back and down. Don't let knees cave in.">>,
      <<"back", "Keep your back straight!">>,
      <<"back", "Leaning back">>,
      <<"back", "Lower the back knee further.">>,
      <<"back", "Lower your chest, maintain a flat back.">>,
      <<"back", "Maintain a flat back and lean back slightly.">>,
      <<"back", "Rep Complete! Kick back.">>,
      <<"back", "Rep Complete! Twist back to the left.">>,
      <<"back", "Squeeze glutes! Don't arch your lower back.">>,
      <<"back", "back">>,
      <<"back", "kickbacks">>,
      <<"Tuck", "Tuck">>,
      <<"Tuck", "Tuck your elbows!">>,
      <<"Torso", "Torso">>,
      <<"Torso", "Torso straight! Don't lean forward.">>,
      <<"Torso", "Torso straight! Keep chest up.">>,
      <<"Straighten", "Straighten">>,
      <<"Straighten", "Straighten your body line! Push hips forward.">>,
      <<"Straighten", "Straighten your legs! Don't bend your knees.">>,
      <<"Don't squat", "Don't squat">>,
      <<"Don't squat", "Don't squat! Hinge at your hips.">>,
      <<"Don't squat", "Don't squat! Maintain slight bend in standing knee.">>,
      <<"Unlock your knee", "Unlock your knee">>,
      <<"Unlock your knee", "Unlock your knee.">>,
      <<"Unlock your knee", "Unlock your knee. Maintain slight bend.">>,
      <<"Hinge", "Don't squat! Hinge at your hips.">>,
      <<"Hinge", "Hinge">>,
      <<"Hinge", "Hinge at your hips to lower.">>,
      <<"Hinge", "Hinge forward at the hips.">>,
      <<"Hinge", "Hinge forward to start.">>,
      <<"Hinge", "Hinge forward! Keep your torso low.">>,
      <<"Hinge", "Ready! Hinge forward to begin rep.">>,
      <<"Hinge", "Rep Complete! Hinge forward for the next one.">>,
      <<"Hinge", "Rep Complete! Hinge slowly.">>,
      <<"Hips higher", "Hips higher">>,
      <<"Hips higher", "Hips higher! Maintain a tight pike shape.">>,
      <<"Maintain", "Don't squat! Maintain slight bend in standing knee.">>,
      <<"Maintain", "Hips higher! Maintain a tight pike shape.">>,
      <<"Maintain", "Knee bend too deep! Maintain slight bend.">>,
      <<"Maintain", "Knee locked! Maintain a slight, soft bend.">>,
      <<"Maintain", "Maintain">>,
      <<"Maintain", "Maintain a controlled knee bend.">>,
      <<"Maintain", "Maintain a flat back and lean back slightly.">>,
      <<"Maintain", "RUNNING: Timer resumed! Maintain this form.">>,
      <<"Maintain", "Unlock your knee. Maintain slight bend.">>,
      <<"squat", "Don't squat">>,
      <<"squat", "Don't squat! Hinge at your hips.">>,
      <<"squat", "Don't squat! Maintain slight bend in standing knee.">>,
      <<"squat", "Lower into the squat.">>,
      <<"squat", "Lower into your squat.">>,
      <<"squat", "Ready to squat.">>,
      <<"squat", "Rep Complete! Reset and squat again.">>,
      <<"squat", "air_squat">>,
      <<"squat", "barbell_squat">>,
      <<"squat", "bulgarian_split_squat">>,
      <<"squat", "jump_squat">>,
      <<"squat", "overhead_squat">>,
      <<"squat", "squat">>,
      <<"Lock your elbows", "Lock your elbows">>,
      <<"Lock your elbows", "Lock your elbows! Keep arms straight.">>,
      <<"straight", "Back not straight">>,
      <<"straight", "Chest up! Keep your back straight.">>,
      <<"straight", "Good leg straightness.">>,
      <<"straight", "Keep a straight body line! Squeeze glutes.">>,
      <<"straight", "Keep your back straight!">>,
      <<"straight", "Lock your elbows! Keep arms straight.">>,
      <<"straight", "Torso straight! Don't lean forward.">>,
      <<"straight", "Torso straight! Keep chest up.">>,
      <<"straight", "straight">>
    }

ContainsLowerTable ==
    {
      <<"good", "Good back form!">>,
      <<"good", "Good depth! Drive up hard.">>,
      <<"good", "Good depth! Drive up slowly using glutes.">>,
      <<"good", "Good depth! Drive up through your heels.">>,
      <<"good", "Good depth! Drive up.">>,
      <<"good", "Good elbow position!">>,
      <<"good", "Good hinge position.">>,
      <<"good", "Good hinge!">>,
      <<"good", "Good knee stability.">>,
      <<"good", "Good leg straightness.">>,
      <<"good", "Good pike shape!">>,
      <<"good", "Good position! Drive up.">>,
      <<"good", "Good position.">>,
      <<"good", "Good pull! Lower down slowly.">>,
      <<"good", "Good pull! Lower down.">>,
      <<"good", "Good squeeze! Lower with control.">>,
      <<"good", "Good stretch! Drive up using glutes.">>,
      <<"good", "Good torso position.">>,
      <<"good", "Good! Now press up overhead.">>,
      <<"good", "good">>,
      <<"good", "good_mornings">>,
      <<"complete", "Rep Complete!">>,
      <<"complete", "Rep Complete! Absorb and sink.">>,
      <<"complete", "Rep Complete! Curl up.">>,
      <<"complete", "Rep Complete! Dip down slowly.">>,
      <<"complete", "Rep Complete! Drive hips up.">>,
      <<"complete", "Rep Complete! Drive up.">>,
      <<"complete", "Rep Complete! Hinge forward for the next one.">>,
      <<"complete", "Rep Complete! Hinge slowly.">>,
      <<"complete", "Rep Complete! Kick back.">>,
      <<"complete", "Rep Complete! Lockout.">>,
      <<"complete", "Rep Complete! Lower for the next one.">>,
      <<"complete", "Rep Complete! Lower head slowly.">>,
      <<"complete", "Rep Complete! Lower slowly.">>,
      <<"complete", "Rep Complete! Pull up.">>,
      <<"complete", "Rep Complete! Raise again.">>,
      <<"complete", "Rep Complete! Reset and squat again.">>,
      <<"complete", "Rep Complete! Switch legs.">>,
      <<"complete", "Rep Complete! Twist back to the left.">>,
      <<"complete", "Rep complete.">>,
      <<"complete", "complete">>,
      <<"complete", "rep complete">>,
      <<"perfect", "HOLDING: mm:ss.mmm / Perfect form! Keep holding strong.">>,
      <<"perfect", "Perfect plank form! Hold strong.">>,
      <<"perfect", "Reduce weight and focus on perfect form">>,
      <<"perfect", "perfect">>,
      <<"perfect", "perfect form">>,
      <<"perfect form", "HOLDING: mm:ss.mmm / Perfect form! Keep holding strong.">>,
      <<"perfect form", "Reduce weight and focus on perfect form">>,
      <<"perfect form", "perfect form">>,
      <<"holding", "HOLDING: mm:ss.mmm / Perfect form! Keep holding strong.">>,
      <<"holding", "holding">>,
      <<"rep complete", "Rep Complete!">>,
      <<"rep complete", "Rep Complete! Absorb and sink.">>,
      <<"rep complete", "Rep Complete! Curl up.">>,
      <<"rep complete", "Rep Complete! Dip down slowly.">>,
      <<"rep complete", "Rep Complete! Drive hips up.">>,
      <<"rep complete", "Rep Complete! Drive up.">>,
      <<"rep complete", "Rep Complete! Hinge forward for the next one.">>,
      <<"rep complete", "Rep Complete! Hinge slowly.">>,
      <<"rep complete", "Rep Complete! Kick back.">>,
      <<"rep complete", "Rep Complete! Lockout.">>,
      <<"rep complete", "Rep Complete! Lower for the next one.">>,
      <<"rep complete", "Rep Complete! Lower head slowly.">>,
      <<"rep complete", "Rep Complete! Lower slowly.">>,
      <<"rep complete", "Rep Complete! Pull up.">>,
      <<"rep complete", "Rep Complete! Raise again.">>,
      <<"rep complete", "Rep Complete! Reset and squat again.">>,
      <<"rep complete", "Rep Complete! Switch legs.">>,
      <<"rep complete", "Rep Complete! Twist back to the left.">>,
      <<"rep complete", "Rep complete.">>,
      <<"rep complete", "rep complete">>,
      <<"back", "Back not straight">>,
      <<"back", "Chest up! Keep your back straight.">>,
      <<"back", "Good back form!">>,
      <<"back", "Hips back and down. Don't let knees cave in.">>,
      <<"back", "Keep your back straight!">>,
      <<"back", "Leaning back">>,
      <<"back", "Lower the back knee further.">>,
      <<"back", "Lower your chest, maintain a flat back.">>,
      <<"back", "Maintain a flat back and lean back slightly.">>,
      <<"back", "Rep Complete! Kick back.">>,
      <<"back", "Rep Complete! Twist back to the left.">>,
      <<"back", "Squeeze glutes! Don't arch your lower back.">>,
      <<"back", "back">>,
      <<"back", "kickbacks">>,
      <<"straight", "Back not straight">>,
      <<"straight", "Chest up! Keep your back straight.">>,
      <<"straight", "Good leg straightness.">>,
      <<"straight", "Keep a straight body line! Squeeze glutes.">>,
      <<"straight", "Keep your back straight!">>,
      <<"straight", "Lock your elbows! Keep arms straight.">>,
      <<"straight", "Straighten">>,
      <<"straight", "Straighten your body line! Push hips forward.">>,
      <<"straight", "Straighten your legs! Don't bend your knees.">>,
      <<"straight", "Torso straight! Don't lean forward.">>,
      <<"straight", "Torso straight! Keep chest up.">>,
      <<"straight", "straight">>,
      <<"flat", "Lower your chest, maintain a flat back.">>,
      <<"flat", "Maintain a flat back and lean back slightly.">>,
      <<"flat", "flat">>,
      <<"hips up", "Hips up!">>,
      <<"hips up", "Lift your hips up! Don't let them sag.">>,
      <<"hips up", "Rep Complete! Drive hips up.">>,
      <<"hips up", "hips up">>,
      <<"hips down", "Hips down.">>,
      <<"hips down", "hips down">>,
      <<"depth", "Continue lowering to hit depth.">>,
      <<"depth", "Good depth! Drive up hard.">>,
      <<"depth", "Good depth! Drive up slowly using glutes.">>,
      <<"depth", "Good depth! Drive up through your heels.">>,
      <<"depth", "Good depth! Drive up.">>,
      <<"depth", "Insufficient depth">>,
      <<"depth", "Lower hips for depth.">>,
      <<"depth", "Work on mobility to achieve proper depth">>,
      <<"depth", "depth">>,
      <<"parallel", "Lower further! Hit parallel.">>,
      <<"parallel", "Lower... hit parallel!">>,
      <<"parallel", "Squat deeper to hit parallel.">>,
      <<"parallel", "parallel">>,
      <<"elbow", "Elbow positioning">>,
      <<"elbow", "Good elbow position!">>,
      <<"elbow", "LEFT_ELBOW">>,
      <<"elbow", "Lock your elbows">>,
      <<"elbow", "Lock your elbows! Keep arms straight.">>,
      <<"elbow", "Practice keeping elbows tucked to protect shoulders">>,
      <<"elbow", "Press arms up overhead (Elbow: N)">>,
      <<"elbow", "Tuck your elbows!">>,
      <<"elbow", "elbow">>,
      <<"elbow", "elbow_side_plank">>,
      <<"tuck", "Practice keeping elbows tucked to protect shoulders">>,
      <<"tuck", "Tuck">>,
      <<"tuck", "Tuck your elbows!">>,
      <<"tuck", "tuck">>,
      <<"lean", "Leaning back">>,
      <<"lean", "Maintain a flat back and lean back slightly.">>,
      <<"lean", "Too much forward lean! Chest up.">>,
      <<"lean", "Torso straight! Don't lean forward.">>,
      <<"lean", "lean">>,
      <<"squat", "Don't squat">>,
      <<"squat", "Don't squat! Hinge at your hips.">>,
      <<"squat", "Don't squat! Maintain slight bend in standing knee.">>,
      <<"squat", "Lower into the squat.">>,
      <<"squat", "Lower into your squat.">>,
      <<"squat", "Ready to squat.">>,
      <<"squat", "Ready! Squat down to begin rep.">>,
      <<"squat", "Rep Complete! Reset and squat again.">>,
      <<"squat", "SQUAT deeper!">>,
      <<"squat", "Squat deeper to hit parallel.">>,
      <<"squat", "Squat down to start.">>,
      <<"squat", "Squat.">>,
      <<"squat", "Squatting instead of hinging">>,
      <<"squat", "air_squat">>,
      <<"squat", "barbell_squat">>,
      <<"squat", "bulgarian_split_squat">>,
      <<"squat", "jump_squat">>,
      <<"squat", "overhead_squat">>,
      <<"squat", "squat">>,
      <<"don't", "Don't squat">>,
      <<"don't", "Don't squat! Hinge at your hips.">>,
      <<"don't", "Don't squat! Maintain slight bend in standing knee.">>,
      <<"don't", "Hips back and down. Don't let knees cave in.">>,
      <<"don't", "Lift your hips up! Don't let them sag.">>,
      <<"don't", "Squeeze glutes! Don't arch your lower back.">>,
      <<"don't", "Straighten your legs! Don't bend your knees.">>,
      <<"don't", "Torso straight! Don't lean forward.">>,
      <<"don't", "don't">>
    }
\* END-TABLES

Contains(kw, s) == <<kw, s>> \in ContainsTable

ContainsLower(kw, s) == <<kw, s>> \in ContainsLowerTable

(***************************************************************************)
(* RepWise/exercise_logic: the two-phase modules.                          *)
(***************************************************************************)
process_pushup_lockout_at_depth(elbow_angle, back_angle, rep_counter, exercise_state, feedback_text) ==
    LET fb1 == IF back_angle < 160 THEN "Keep your back straight!" ELSE "Good back form!"
    IN  IF elbow_angle < 90 /\ back_angle > 160
        THEN Res(rep_counter, "down", "Lower!", "")
        ELSE IF elbow_angle > 90 /\ exercise_state = "down"
        THEN Res(rep_counter + 1, "up", "Rep Complete!", "")
        ELSE IF elbow_angle > 160 /\ exercise_state = "up"
        THEN Res(rep_counter, exercise_state, "Ready to lower!", "")
        ELSE Res(rep_counter, exercise_state,
                 IF ~Contains("back", fb1) THEN "Push up or lower!" ELSE fb1, "")

process_pushup(elbow_angle, back_angle, rep_counter, exercise_state, feedback_text) ==
    LET fb1 == IF back_angle < 160 THEN "Keep your back straight!" ELSE "Good back form!"
    IN  IF elbow_angle < 90 /\ back_angle > 160
        THEN Res(rep_counter, "down", "Lower!", "")
        ELSE IF elbow_angle > 160 /\ exercise_state = "down"
        THEN Res(rep_counter + 1, "up", "Rep Complete!", "")
        ELSE IF elbow_angle > 160 /\ exercise_state = "up"
        THEN Res(rep_counter, exercise_state, "Ready to lower!", "")
        ELSE Res(rep_counter, exercise_state,
                 IF ~Contains("back", fb1) THEN "Push up or lower!" ELSE fb1, "")

\* process_pull_up, had it counted every frame of the dead hang.
process_pull_up_recount(elbow_angle, rep_counter, exercise_state, feedback_text) ==
    LET ELBOW_TOP_THRESHOLD == 90
        ELBOW_HANG_THRESHOLD == 160
    IN  IF elbow_angle < ELBOW_TOP_THRESHOLD
        THEN IF exercise_state = "down"
             THEN Res(rep_counter, "up", "Good pull! Lower down.", "")
             ELSE Res(rep_counter, exercise_state, feedback_text, "")
        ELSE IF elbow_angle > ELBOW_HANG_THRESHOLD /\ exercise_state = "up"
        THEN Res(rep_counter + 1, "down", "Rep Complete!", "")
        ELSE IF exercise_state = "down" /\ elbow_angle > ELBOW_HANG_THRESHOLD
        THEN Res(rep_counter + 1, exercise_state, "Pull up!", "")
        ELSE IF exercise_state = "down" /\ elbow_angle > ELBOW_TOP_THRESHOLD
        THEN Res(rep_counter, exercise_state, "Pull higher!", "")
        ELSE Res(rep_counter, exercise_state, feedback_text, "")

process_pull_up(elbow_angle, rep_counter, exercise_state, feedback_text) ==
    LET ELBOW_TOP_THRESHOLD == 90
        ELBOW_HANG_THRESHOLD == 160
    IN  IF elbow_angle < ELBOW_TOP_THRESHOLD
        THEN IF exercise_state = "down"
             THEN Res(rep_counter, "up", "Good pull! Lower down.", "")
             ELSE Res(rep_counter, exercise_state, feedback_text, "")
        ELSE IF elbow_angle > ELBOW_HANG_THRESHOLD /\ exercise_state = "up"
        THEN Res(rep_counter + 1, "down", "Rep Complete!", "")
        ELSE IF exercise_state = "down" /\ elbow_angle > ELBOW_HANG_THRESHOLD
        THEN Res(rep_counter, exercise_state, "Pull up!", "")
        ELSE IF exercise_state = "down" /\ elbow_angle > ELBOW_TOP_THRESHOLD
        THEN Res(rep_counter, exercise_state, "Pull higher!", "")
        ELSE Res(rep_counter, exercise_state, feedback_text, "")

\* IS_JUMPING of jump_squat.py, from the history after the current hip height was
\* appended and the history trimmed to MAX_HISTORY_LEN.
MAX_HISTORY_LEN == 5

push_hip_height(history, current_hip_y) ==
    LET h == Append(history, current_hip_y)
    IN  IF Len(h) > MAX_HISTORY_LEN THEN Tail(h) ELSE h

is_jumping(history, current_hip_y, knee_angle) ==
    /\ Len(history) = MAX_HISTORY_LEN
    /\ \A i \in 1..(Len(history) - 2) : current_hip_y < history[i]
    /\ knee_angle > 165

process_jump_squat(knee_angle, back_angle, IS_JUMPING, rep_counter, exercise_state, feedback_text) ==
    LET KNEE_DEPTH_THRESHOLD == 100
        KNEE_JUMP_THRESHOLD == 165
        BACK_STRAIGHT_THRESHOLD == 80
        fb1 == IF back_angle < BACK_STRAIGHT_THRESHOLD
               THEN "Keep your back straight!" ELSE feedback_text
    IN  IF knee_angle > KNEE_JUMP_THRESHOLD /\ exercise_state = "down"
        THEN Res(rep_counter + 1, "up", "Rep Complete! Absorb and sink.", "")
        ELSE IF knee_angle < KNEE_DEPTH_THRESHOLD /\ back_angle > BACK_STRAIGHT_THRESHOLD
        THEN IF exercise_state = "up"
             THEN Res(rep_counter, "down", "Drive up explosively!", "")
             ELSE Res(rep_counter, exercise_state, fb1, "")
        ELSE IF IS_JUMPING /\ exercise_state = "down"
        THEN Res(rep_counter, exercise_state, "EXPLODE!", "")
        ELSE IF exercise_state = "up" /\ knee_angle > KNEE_DEPTH_THRESHOLD
                /\ knee_angle < KNEE_JUMP_THRESHOLD
        THEN Res(rep_counter, exercise_state,
                 IF ~Contains("back", fb1) THEN "SQUAT deeper!" ELSE fb1, "")
        ELSE Res(rep_counter, exercise_state, fb1, "")

process_chest_press(elbow_angle, shoulder_angle, rep_counter, exercise_state, feedback_text) ==
    LET ELBOW_BENT_THRESHOLD == 90
        ELBOW_STRAIGHT_THRESHOLD == 160
        SHOULDER_FLARE_THRESHOLD == 90
        fb1 == IF shoulder_angle > SHOULDER_FLARE_THRESHOLD
               THEN "Tuck your elbows!" ELSE "Good elbow position!"
    IN  IF elbow_angle < ELBOW_BENT_THRESHOLD
        THEN IF exercise_state = "up"
             THEN Res(rep_counter, "down", "Press up!", "")
             ELSE Res(rep_counter, exercise_state, fb1, "")
        ELSE IF elbow_angle > ELBOW_STRAIGHT_THRESHOLD /\ exercise_state = "down"
        THEN Res(rep_counter + 1, "up", "Rep Complete!", "")
        ELSE IF exercise_state = "up" /\ elbow_angle > ELBOW_STRAIGHT_THRESHOLD
        THEN Res(rep_counter, exercise_state,
                 IF ~Contains("Tuck", fb1) THEN "Lower with control." ELSE fb1, "")
        ELSE Res(rep_counter, exercise_state, fb1, "")

process_lunge(front_knee_angle, torso_angle, rep_counter, exercise_state, feedback_text) ==
    LET KNEE_DEPTH_THRESHOLD == 95
        KNEE_STRAIGHT_THRESHOLD == 160
        TORSO_UPRIGHT_THRESHOLD == 150
        fb1 == IF torso_angle < TORSO_UPRIGHT_THRESHOLD
               THEN "Torso straight! Don't lean forward." ELSE "Good torso position."
    IN  IF front_knee_angle < KNEE_DEPTH_THRESHOLD /\ torso_angle > TORSO_UPRIGHT_THRESHOLD
        THEN IF exercise_state = "up"
             THEN Res(rep_counter, "down", "Good depth! Drive up.", "")
             ELSE Res(rep_counter, exercise_state, fb1, "")
        ELSE IF front_knee_angle > KNEE_STRAIGHT_THRESHOLD /\ exercise_state = "down"
        THEN Res(rep_counter + 1, "up", "Rep Complete! Switch legs.", "")
        ELSE IF exercise_state = "up" /\ front_knee_angle > KNEE_STRAIGHT_THRESHOLD
        THEN Res(rep_counter, exercise_state,
                 IF ~Contains("Torso", fb1) THEN "Step forward and lower." ELSE fb1, "")
        ELSE IF exercise_state = "up" /\ front_knee_angle < KNEE_STRAIGHT_THRESHOLD
        THEN Res(rep_counter, exercise_state,
                 IF ~Contains("Torso", fb1) THEN "Lower the back knee further." ELSE fb1, "")
        ELSE Res(rep_counter, exercise_state, fb1, "")

process_bulgarian_split_squat(front_knee_angle, torso_angle, rep_counter, exercise_state, feedback_text) ==
    LET KNEE_DEPTH_THRESHOLD == 95
        KNEE_STRAIGHT_THRESHOLD == 160
        TORSO_UPRIGHT_THRESHOLD == 150
        fb1 == IF torso_angle < TORSO_UPRIGHT_THRESHOLD
               THEN "Torso straight! Keep chest up." ELSE "Good torso position."
    IN  IF front_knee_angle < KNEE_DEPTH_THRESHOLD /\ torso_angle > TORSO_UPRIGHT_THRESHOLD
        THEN IF exercise_state = "up"
             THEN Res(rep_counter, "down", "Good depth! Drive up hard.", "")
             ELSE Res(rep_counter, exercise_state, fb1, "")
        ELSE IF front_knee_angle > KNEE_STRAIGHT_THRESHOLD /\ exercise_state = "down"
        THEN Res(rep_counter + 1, "up", "Rep Complete! Lower slowly.", "")
        ELSE IF exercise_state = "up" /\ front_knee_angle > KNEE_STRAIGHT_THRESHOLD
        THEN Res(rep_counter, exercise_state,
                 IF ~Contains("Torso", fb1) THEN "Lower into the squat." ELSE fb1, "")
        ELSE IF exercise_state = "up" /\ front_knee_angle < KNEE_STRAIGHT_THRESHOLD
        THEN Res(rep_counter, exercise_state,
                 IF ~Contains("Torso", fb1) THEN "Lower further! Hit parallel." ELSE fb1, "")
        ELSE Res(rep_counter, exercise_state, fb1, "")

process_chin_ups(elbow_angle, left_ear_2d_y, left_wrist_2d_y, rep_counter, exercise_state, feedback_text) ==
    LET ELBOW_TOP_THRESHOLD == 90
        ELBOW_HANG_THRESHOLD == 160
        CHIN_OVER_BAR_HEIGHT_DIFF == -20
        is_chin_up == (left_ear_2d_y < left_wrist_2d_y + CHIN_OVER_BAR_HEIGHT_DIFF)
                      /\ elbow_angle < ELBOW_TOP_THRESHOLD
    IN  IF is_chin_up
        THEN IF exercise_state = "down"
             THEN Res(rep_counter, "up", "Good pull! Lower down slowly.", "")
             ELSE Res(rep_counter, exercise_state, feedback_text, "")
        ELSE IF elbow_angle > ELBOW_HANG_THRESHOLD /\ exercise_state = "up"
        THEN Res(rep_counter + 1, "down", "Rep Complete! Pull up.", "")
        ELSE IF exercise_state = "down" /\ elbow_angle > ELBOW_HANG_THRESHOLD
        THEN Res(rep_counter, exercise_state, "Pull up!", "")
        ELSE IF exercise_state = "down" /\ elbow_angle > ELBOW_TOP_THRESHOLD
        THEN Res(rep_counter, exercise_state, "Pull higher! Get your chin over the bar.", "")
        ELSE Res(rep_counter, exercise_state, feedback_text, "")

process_laying_leg_raises(lift_angle, knee_angle, rep_counter, exercise_state, feedback_text) ==
    LET KNEE_STRAIGHT_THRESHOLD == 170
        LIFT_PEAK_THRESHOLD == 90
        LOWER_FLOOR_THRESHOLD == 170
        fb1 == IF knee_angle < KNEE_STRAIGHT_THRESHOLD
               THEN "Straighten your legs! Don't bend your knees."
               ELSE "Good leg straightness."
    IN  IF lift_angle < LIFT_PEAK_THRESHOLD /\ knee_angle > KNEE_STRAIGHT_THRESHOLD
        THEN IF exercise_state = "down"
             THEN Res(rep_counter, "up", "Pause! Lower slowly with control.", "")
             ELSE Res(rep_counter, exercise_state, fb1, "")
        ELSE IF lift_angle > LOWER_FLOOR_THRESHOLD /\ exercise_state = "up"
        THEN Res(rep_counter + 1, "down", "Rep Complete! Raise again.", "")
        ELSE IF exercise_state = "down" /\ lift_angle < LOWER_FLOOR_THRESHOLD
                /\ lift_angle > LIFT_PEAK_THRESHOLD
        THEN Res(rep_counter, exercise_state,
                 IF ~Contains("Straighten", fb1) THEN "Raise higher or lower slower!" ELSE fb1, "")
        ELSE Res(rep_counter, exercise_state, fb1, "")

process_single_leg_rdl(hinge_angle, knee_angle, rep_counter, exercise_state, feedback_text) ==
    LET KNEE_MAX_BEND == 150
        KNEE_MIN_BEND == 175
        HINGE_BOTTOM_THRESHOLD == 110
        HINGE_TOP_THRESHOLD == 170
        fb1 == IF knee_angle < KNEE_MAX_BEND
               THEN "Don't squat! Maintain slight bend in standing knee."
               ELSE IF knee_angle > KNEE_MIN_BEND
               THEN "Unlock your knee. Maintain slight bend."
               ELSE "Good knee stability."
    IN  IF hinge_angle < HINGE_BOTTOM_THRESHOLD
           /\ KNEE_MAX_BEND < knee_angle /\ knee_angle < KNEE_MIN_BEND
        THEN IF exercise_state = "up"
             THEN Res(rep_counter, "down", "Good stretch! Drive up using glutes.", "")
             ELSE Res(rep_counter, exercise_state, fb1, "")
        ELSE IF hinge_angle > HINGE_TOP_THRESHOLD /\ exercise_state = "down"
        THEN Res(rep_counter + 1, "up", "Rep Complete! Hinge slowly.", "")
        ELSE IF exercise_state = "up" /\ hinge_angle > HINGE_TOP_THRESHOLD
        THEN Res(rep_counter, exercise_state,
                 IF ~Contains("Don't squat", fb1) /\ ~Contains("Unlock your knee", fb1)
                 THEN "Hinge forward at the hips." ELSE fb1, "")
        ELSE Res(rep_counter, exercise_state, fb1, "")

process_side_plank_up_down(hip_vertical_diff, body_line_angle, rep_counter, exercise_state, feedback_text) ==
    LET HIP_TOP_THRESHOLD == 0
        HIP_BOTTOM_THRESHOLD == 150
        BODY_STRAIGHT_THRESHOLD == 160
        fb1 == IF body_line_angle < BODY_STRAIGHT_THRESHOLD
               THEN "Keep a straight body line! Squeeze glutes." ELSE feedback_text
    IN  IF hip_vertical_diff > HIP_BOTTOM_THRESHOLD /\ body_line_angle > BODY_STRAIGHT_THRESHOLD
        THEN IF exercise_state = "up"
             THEN Res(rep_counter, "down", "Lift hips to the ceiling!", "")
             ELSE Res(rep_counter, exercise_state, fb1, "")
        ELSE IF hip_vertical_diff < HIP_TOP_THRESHOLD /\ exercise_state = "down"
        THEN Res(rep_counter + 1, "up", "Rep Complete! Dip down slowly.", "")
        ELSE IF exercise_state = "up" /\ HIP_TOP_THRESHOLD < hip_vertical_diff
                /\ hip_vertical_diff < HIP_BOTTOM_THRESHOLD
        THEN Res(rep_counter, exercise_state, "Lower hips for depth.", "")
        ELSE Res(rep_counter, exercise_state, fb1, "")

process_donkey_calf_raise(ankle_angle, hip_angle, rep_counter, exercise_state, feedback_text) ==
    LET ANKLE_CONTRACTION_THRESHOLD == 90
        ANKLE_PEAK_THRESHOLD == 150
        HIP_HINGE_THRESHOLD == 110
        fb1 == IF hip_angle > HIP_HINGE_THRESHOLD
               THEN "Hinge forward! Keep your torso low." ELSE "Good hinge position."
    IN  IF ankle_angle > ANKLE_PEAK_THRESHOLD /\ hip_angle < HIP_HINGE_THRESHOLD
        THEN IF exercise_state = "down"
             THEN Res(rep_counter, "up", "Squeeze! Lower slowly.", "")
             ELSE Res(rep_counter, exercise_state, fb1, "")
        ELSE IF ankle_angle < ANKLE_CONTRACTION_THRESHOLD /\ exercise_state = "up"
        THEN Res(rep_counter + 1, "down", "Rep Complete! Drive up.", "")
        ELSE IF exercise_state = "down" /\ ankle_angle < ANKLE_PEAK_THRESHOLD
        THEN Res(rep_counter, exercise_state,
                 IF ~Contains("Hinge", fb1) THEN "Push up onto your toes!" ELSE fb1, "")
        ELSE Res(rep_counter, exercise_state, fb1, "")

process_pike_press(elbow_angle, pike_angle, rep_counter, exercise_state, feedback_text) ==
    LET ELBOW_PRESS_THRESHOLD == 90
        ELBOW_LOCKOUT_THRESHOLD == 160
        PIKE_SHAPE_THRESHOLD == 70
        fb1 == IF pike_angle > PIKE_SHAPE_THRESHOLD \/ pike_angle < 45
               THEN "Hips higher! Maintain a tight pike shape." ELSE "Good pike shape!"
    IN  IF elbow_angle < ELBOW_PRESS_THRESHOLD /\ pike_angle < PIKE_SHAPE_THRESHOLD
        THEN IF exercise_state = "up"
             THEN Res(rep_counter, "down", "Drive up through your hands!", "")
             ELSE Res(rep_counter, exercise_state, fb1, "")
        ELSE IF elbow_angle > ELBOW_LOCKOUT_THRESHOLD /\ exercise_state = "down"
        THEN Res(rep_counter + 1, "up", "Rep Complete! Lower head slowly.", "")
        ELSE IF exercise_state = "up" /\ elbow_angle > ELBOW_LOCKOUT_THRESHOLD
        THEN Res(rep_counter, exercise_state,
                 IF ~Contains("Hips higher", fb1) THEN "Lower to the floor." ELSE fb1, "")
        ELSE Res(rep_counter, exercise_state, fb1, "")

process_kickbacks(kickback_angle, knee_angle, rep_counter, exercise_state, feedback_text) ==
    LET KICK_MAX_THRESHOLD == 170
        KICK_START_THRESHOLD == 90
        KNEE_MIN_BEND == 70
        KNEE_MAX_BEND == 140
        fb1 == IF knee_angle < KNEE_MIN_BEND \/ knee_angle > KNEE_MAX_BEND
               THEN "Maintain a controlled knee bend." ELSE "Good position."
    IN  IF kickback_angle > KICK_MAX_THRESHOLD
           /\ KNEE_MIN_BEND < knee_angle /\ knee_angle < KNEE_MAX_BEND
        THEN IF exercise_state = "down"
             THEN Res(rep_counter, "up", "Squeeze and hold! Lower slowly.", "")
             ELSE Res(rep_counter, exercise_state, fb1, "")
        ELSE IF kickback_angle < KICK_START_THRESHOLD /\ exercise_state = "up"
        THEN Res(rep_counter + 1, "down", "Rep Complete! Kick back.", "")
        ELSE IF exercise_state = "down" /\ kickback_angle > KICK_START_THRESHOLD
        THEN Res(rep_counter, exercise_state,
                 IF ~Contains("Maintain", fb1) THEN "Kick higher and squeeze glutes." ELSE fb1, "")
        ELSE Res(rep_counter, exercise_state, fb1, "")

process_deadlift(hip_angle, knee_angle, rep_counter, exercise_state, feedback_text) ==
    LET HIP_HINGE_THRESHOLD == 90
        HIP_STRAIGHT_THRESHOLD == 160
        KNEE_BEND_THRESHOLD == 130
        KNEE_STRAIGHT_THRESHOLD == 160
        fb1 == IF hip_angle < HIP_HINGE_THRESHOLD /\ knee_angle < KNEE_BEND_THRESHOLD
               THEN "Don't squat! Hinge at your hips." ELSE "Good hinge!"
    IN  IF hip_angle < HIP_HINGE_THRESHOLD /\ knee_angle > KNEE_BEND_THRESHOLD
        THEN IF exercise_state = "up"
             THEN Res(rep_counter, "down", "Good position! Drive up.", "")
             ELSE Res(rep_counter, exercise_state, fb1, "")
        ELSE IF hip_angle > HIP_STRAIGHT_THRESHOLD /\ knee_angle > KNEE_STRAIGHT_THRESHOLD
                /\ exercise_state = "down"
        THEN Res(rep_counter + 1, "up", "Rep Complete! Lockout.", "")
        ELSE IF exercise_state = "up" /\ hip_angle > HIP_STRAIGHT_THRESHOLD
        THEN Res(rep_counter, exercise_state,
                 IF ~Contains("squat", fb1) THEN "Hinge at your hips to lower." ELSE fb1, "")
        ELSE Res(rep_counter, exercise_state, fb1, "")

process_overhead_squat(knee_angle, back_angle, arm_lockout_angle, rep_counter, exercise_state, feedback_text) ==
    LET KNEE_DEPTH_THRESHOLD == 90
        KNEE_STRAIGHT_THRESHOLD == 160
        BACK_STRAIGHT_THRESHOLD == 80
        ARM_LOCKOUT_THRESHOLD == 165
        fb1 == IF arm_lockout_angle < ARM_LOCKOUT_THRESHOLD
               THEN "Lock your elbows! Keep arms straight."
               ELSE IF back_angle < BACK_STRAIGHT_THRESHOLD
               THEN "Chest up! Keep your back straight."
               ELSE "Ready to squat."
    IN  IF knee_angle < KNEE_DEPTH_THRESHOLD /\ back_angle > BACK_STRAIGHT_THRESHOLD
           /\ arm_lockout_angle > ARM_LOCKOUT_THRESHOLD
        THEN IF exercise_state = "up"
             THEN Res(rep_counter, "down", "Good depth! Drive up.", "")
             ELSE Res(rep_counter, exercise_state, fb1, "")
        ELSE IF knee_angle > KNEE_STRAIGHT_THRESHOLD /\ exercise_state = "down"
        THEN Res(rep_counter + 1, "up", "Rep Complete!", "")
        ELSE IF exercise_state = "up" /\ knee_angle < KNEE_STRAIGHT_THRESHOLD
                /\ knee_angle > KNEE_DEPTH_THRESHOLD
        THEN Res(rep_counter, exercise_state,
                 IF ~Contains("Lock your elbows", fb1) /\ ~Contains("straight", fb1)
                 THEN "Lower deeper, keeping the pole overhead!" ELSE fb1, "")
        ELSE Res(rep_counter, exercise_state, fb1, "")

(***************************************************************************)
(* RepWiseYolo/exercise_logic: the two-phase modules and the static hold.  *)
(***************************************************************************)
process_barbell_squat(knee_angle, back_angle, rep_counter, exercise_state, feedback_text) ==
    LET KNEE_DEPTH_THRESHOLD == 90
        KNEE_STRAIGHT_THRESHOLD == 160
        BACK_STRAIGHT_THRESHOLD == 80
        fb1 == IF back_angle < BACK_STRAIGHT_THRESHOLD
               THEN "Chest up! Keep your back straight." ELSE "Good back form!"
    IN  IF knee_angle < KNEE_DEPTH_THRESHOLD /\ back_angle > BACK_STRAIGHT_THRESHOLD
        THEN IF exercise_state = "up"
             THEN Res(rep_counter, "down", "Good depth! Drive up.", "")
             ELSE Res(rep_counter, exercise_state, fb1, "")
        ELSE IF knee_angle > KNEE_STRAIGHT_THRESHOLD /\ exercise_state = "down"
        THEN Res(rep_counter + 1, "up", "Rep Complete!", "")
        ELSE IF exercise_state = "up" /\ knee_angle > KNEE_STRAIGHT_THRESHOLD
        THEN Res(rep_counter, exercise_state,
                 IF ~Contains("back", fb1) THEN "Lower into your squat." ELSE fb1, "")
        ELSE IF exercise_state = "up" /\ knee_angle < KNEE_STRAIGHT_THRESHOLD
        THEN Res(rep_counter, exercise_state,
                 IF ~Contains("back", fb1) THEN "Lower... hit parallel!" ELSE fb1, "")
        ELSE Res(rep_counter, exercise_state, fb1, "")

process_crunches(curl_angle, rep_counter, exercise_state, feedback_text) ==
    LET CRUNCH_PEAK_THRESHOLD == 160
        CRUNCH_FLOOR_THRESHOLD == 175
    IN  IF curl_angle < CRUNCH_PEAK_THRESHOLD
        THEN IF exercise_state = "down"
             THEN Res(rep_counter, "up", "Squeeze! Lower slowly.", "")
             ELSE Res(rep_counter, exercise_state, feedback_text, "")
        ELSE IF curl_angle > CRUNCH_FLOOR_THRESHOLD /\ exercise_state = "up"
        THEN Res(rep_counter + 1, "down", "Rep Complete! Curl up.", "")
        ELSE IF exercise_state = "down" /\ curl_angle > CRUNCH_PEAK_THRESHOLD
        THEN Res(rep_counter, exercise_state, "Curl higher! Lift your shoulders.", "")
        ELSE Res(rep_counter, exercise_state, feedback_text, "")

process_glute_bridge(extension_angle, rep_counter, exercise_state, feedback_text) ==
    LET HIP_TOP_THRESHOLD == 165
        HIP_BOTTOM_THRESHOLD == 110
        fb1 == IF extension_angle > HIP_TOP_THRESHOLD
               THEN "Squeeze glutes! Don't arch your lower back." ELSE feedback_text
    IN  IF extension_angle > HIP_TOP_THRESHOLD
        THEN IF exercise_state = "down"
             THEN Res(rep_counter, "up", "Good squeeze! Lower with control.", "")
             ELSE Res(rep_counter, exercise_state, fb1, "")
        ELSE IF extension_angle < HIP_BOTTOM_THRESHOLD /\ exercise_state = "up"
        THEN Res(rep_counter + 1, "down", "Rep Complete! Drive hips up.", "")
        ELSE IF exercise_state = "down" /\ extension_angle > HIP_BOTTOM_THRESHOLD
        THEN Res(rep_counter, exercise_state, "Push your hips higher!", "")
        ELSE Res(rep_counter, exercise_state, fb1, "")

ROTATION_LEFT_THRESHOLD == -15
ROTATION_RIGHT_THRESHOLD == 15
BACK_FLAT_THRESHOLD == 120

process_russian_twist(rotation_value, back_angle, rep_counter, exercise_state, feedback_text) ==
    LET fb1 == IF back_angle < BACK_FLAT_THRESHOLD \/ back_angle > 180
               THEN "Maintain a flat back and lean back slightly." ELSE "Rotate left!"
    IN  IF rotation_value < ROTATION_LEFT_THRESHOLD
        THEN IF exercise_state = "right"
             THEN Res(rep_counter, "left", "Twist to the right!", "")
             ELSE Res(rep_counter, exercise_state, fb1, "")
        ELSE IF rotation_value > ROTATION_RIGHT_THRESHOLD
        THEN IF exercise_state = "left"
             THEN Res(rep_counter + 1, "right", "Rep Complete! Twist back to the left.", "")
             ELSE Res(rep_counter, exercise_state, fb1, "")
        ELSE IF ROTATION_LEFT_THRESHOLD <= rotation_value
                /\ rotation_value <= ROTATION_RIGHT_THRESHOLD
        THEN Res(rep_counter, exercise_state,
                 IF exercise_state = "up" THEN "Twist left to begin!"
                 ELSE IF exercise_state = "left" THEN "Keep twisting right!"
                 ELSE IF exercise_state = "right" THEN "Keep twisting left!"
                 ELSE fb1, "")
        ELSE Res(rep_counter, exercise_state, fb1, "")

process_elbow_side_plank(body_line_angle, hip_vertical_diff, rep_counter, exercise_state, feedback_text) ==
    LET BODY_STRAIGHT_THRESHOLD == 170
        HIP_SAG_THRESHOLD == 50
        fb1 == IF body_line_angle < BODY_STRAIGHT_THRESHOLD
               THEN "Straighten your body line! Push hips forward."
               ELSE IF hip_vertical_diff > HIP_SAG_THRESHOLD
               THEN "Lift your hips up! Don't let them sag."
               ELSE "Perfect plank form! Hold strong."
    IN  Res(rep_counter, "up", fb1, "")

(***************************************************************************)
(* The three-phase modules (up, down, recovering).  They return a speech   *)
(* text as a fourth value.                                                 *)
(***************************************************************************)
Feedback3(r, s, current_feedback, feedback_text, sp) ==
    Res(r, s, IF current_feedback # "" THEN current_feedback ELSE feedback_text, sp)

\* process_air_squat, had a drop below parallel while recovering re-entered down.
process_air_squat_redescend(knee_angle, torso_angle, rep_counter, exercise_state, feedback_text) ==
    LET KNEE_PARALLEL_THRESHOLD == 95
        KNEE_TOP_THRESHOLD == 165
        TORSO_LEAN_MAX == 100
        is_upright_torso == torso_angle > TORSO_LEAN_MAX
        cf0 == IF ~is_upright_torso THEN "Too much forward lean! Chest up." ELSE ""
        sp0 == IF ~is_upright_torso THEN "Lift chest." ELSE ""
    IN  IF exercise_state = "up"
        THEN IF knee_angle > KNEE_TOP_THRESHOLD
             THEN IF knee_angle < KNEE_TOP_THRESHOLD - 5 /\ is_upright_torso
                  THEN Feedback3(rep_counter, "down",
                                 "Hips back and down. Don't let knees cave in.",
                                 feedback_text, "Squat.")
                  ELSE Feedback3(rep_counter, exercise_state,
                                 IF cf0 = "" THEN "Ready! Squat down to begin rep." ELSE cf0,
                                 feedback_text,
                                 IF rep_counter = 0 /\ sp0 = "" THEN "Squat down to start." ELSE sp0)
             ELSE Feedback3(rep_counter, exercise_state, "Stand up fully (Knee angle: N)",
                            feedback_text, sp0)
        ELSE IF exercise_state = "down"
        THEN IF knee_angle < KNEE_PARALLEL_THRESHOLD
             THEN Feedback3(rep_counter, "recovering",
                            IF cf0 = "" THEN "Good depth! Drive up through your heels." ELSE cf0,
                            feedback_text,
                            IF cf0 = "" /\ sp0 = "" THEN "Drive up." ELSE sp0)
             ELSE IF knee_angle > KNEE_PARALLEL_THRESHOLD
             THEN Feedback3(rep_counter, exercise_state,
                            IF cf0 = "" THEN "Squat deeper to hit parallel." ELSE cf0,
                            feedback_text,
                            IF cf0 = "" /\ sp0 = "" THEN "Deeper." ELSE sp0)
             ELSE Feedback3(rep_counter, exercise_state, cf0, feedback_text, sp0)
        ELSE IF exercise_state = "recovering"
        THEN IF knee_angle > KNEE_TOP_THRESHOLD /\ is_upright_torso
             THEN Feedback3(rep_counter + 1, "up", "Rep Complete! Reset and squat again.",
                            feedback_text, "Rep complete.")
             ELSE Feedback3(rep_counter,
                            IF knee_angle < KNEE_PARALLEL_THRESHOLD
                            THEN "down" ELSE exercise_state,
                            IF cf0 = "" THEN "Keep pushing up to lockout." ELSE cf0,
                            feedback_text, sp0)
        ELSE Feedback3(rep_counter, exercise_state, cf0, feedback_text, sp0)

process_air_squat(knee_angle, torso_angle, rep_counter, exercise_state, feedback_text) ==
    LET KNEE_PARALLEL_THRESHOLD == 95
        KNEE_TOP_THRESHOLD == 165
        TORSO_LEAN_MAX == 100
        is_upright_torso == torso_angle > TORSO_LEAN_MAX
        cf0 == IF ~is_upright_torso THEN "Too much forward lean! Chest up." ELSE ""
        sp0 == IF ~is_upright_torso THEN "Lift chest." ELSE ""
    IN  IF exercise_state = "up"
        THEN IF knee_angle > KNEE_TOP_THRESHOLD
             THEN IF knee_angle < KNEE_TOP_THRESHOLD - 5 /\ is_upright_torso
                  THEN Feedback3(rep_counter, "down",
                                 "Hips back and down. Don't let knees cave in.",
                                 feedback_text, "Squat.")
                  ELSE Feedback3(rep_counter, exercise_state,
                                 IF cf0 = "" THEN "Ready! Squat down to begin rep." ELSE cf0,
                                 feedback_text,
                                 IF rep_counter = 0 /\ sp0 = "" THEN "Squat down to start." ELSE sp0)
             ELSE Feedback3(rep_counter, exercise_state, "Stand up fully (Knee angle: N)",
                            feedback_text, sp0)
        ELSE IF exercise_state = "down"
        THEN IF knee_angle < KNEE_PARALLEL_THRESHOLD
             THEN Feedback3(rep_counter, "recovering",
                            IF cf0 = "" THEN "Good depth! Drive up through your heels." ELSE cf0,
                            feedback_text,
                            IF cf0 = "" /\ sp0 = "" THEN "Drive up." ELSE sp0)
             ELSE IF knee_angle > KNEE_PARALLEL_THRESHOLD
             THEN Feedback3(rep_counter, exercise_state,
                            IF cf0 = "" THEN "Squat deeper to hit parallel." ELSE cf0,
                            feedback_text,
                            IF cf0 = "" /\ sp0 = "" THEN "Deeper." ELSE sp0)
             ELSE Feedback3(rep_counter, exercise_state, cf0, feedback_text, sp0)
        ELSE IF exercise_state = "recovering"
        THEN IF knee_angle > KNEE_TOP_THRESHOLD /\ is_upright_torso
             THEN Feedback3(rep_counter + 1, "up", "Rep Complete! Reset and squat again.",
                            feedback_text, "Rep complete.")
             ELSE Feedback3(rep_counter, exercise_state,
                            IF cf0 = "" THEN "Keep pushing up to lockout." ELSE cf0,
                            feedback_text, sp0)
        ELSE Feedback3(rep_counter, exercise_state, cf0, feedback_text, sp0)

process_good_mornings(hinge_angle, knee_angle, rep_counter, exercise_state, feedback_text) ==
    LET KNEE_BEND_MIN_THRESHOLD == 160
        KNEE_BEND_MAX_THRESHOLD == 178
        HINGE_BOTTOM_THRESHOLD == 70
        HINGE_TOP_THRESHOLD == 165
        HINGE_START_THRESHOLD == 158
        is_good_knee == KNEE_BEND_MIN_THRESHOLD <= knee_angle
                        /\ knee_angle <= KNEE_BEND_MAX_THRESHOLD
        cf0 == IF knee_angle < KNEE_BEND_MIN_THRESHOLD
               THEN "Knee bend too deep! Maintain slight bend."
               ELSE IF knee_angle > KNEE_BEND_MAX_THRESHOLD
               THEN "Knee locked! Maintain a slight, soft bend."
               ELSE ""
        sp0 == IF knee_angle < KNEE_BEND_MIN_THRESHOLD THEN "Less knee bend."
               ELSE IF knee_angle > KNEE_BEND_MAX_THRESHOLD THEN "Unlock your knee."
               ELSE ""
    IN  IF exercise_state = "up"
        THEN IF hinge_angle > HINGE_TOP_THRESHOLD
             THEN IF hinge_angle < HINGE_START_THRESHOLD /\ is_good_knee
                  THEN Feedback3(rep_counter, "down", "Lower your chest, maintain a flat back.",
                                 feedback_text, "Lower.")
                  ELSE Feedback3(rep_counter, exercise_state,
                                 IF cf0 = "" THEN "Ready! Hinge forward to begin rep." ELSE cf0,
                                 feedback_text,
                                 IF rep_counter = 0 /\ sp0 = "" THEN "Hinge forward to start." ELSE sp0)
             ELSE IF hinge_angle < HINGE_START_THRESHOLD /\ is_good_knee
                  THEN Feedback3(rep_counter, "down", "Continue lowering to hit depth.",
                                 feedback_text, "Lower.")
                  ELSE Feedback3(rep_counter, exercise_state, "Stand tall (Hip angle: N)",
                                 feedback_text, sp0)
        ELSE IF exercise_state = "down"
        THEN IF hinge_angle < HINGE_BOTTOM_THRESHOLD
             THEN Feedback3(rep_counter, "recovering",
                            IF cf0 = "" THEN "Good depth! Drive up slowly using glutes." ELSE cf0,
                            feedback_text,
                            IF cf0 = "" /\ sp0 = "" THEN "Drive up." ELSE sp0)
             ELSE IF hinge_angle > HINGE_BOTTOM_THRESHOLD
             THEN Feedback3(rep_counter, exercise_state,
                            IF cf0 = "" THEN "Lower your chest further. Find the stretch." ELSE cf0,
                            feedback_text,
                            IF cf0 = "" /\ sp0 = "" THEN "Bend down." ELSE sp0)
             ELSE Feedback3(rep_counter, exercise_state, cf0, feedback_text, sp0)
        ELSE IF exercise_state = "recovering"
        THEN IF hinge_angle > HINGE_TOP_THRESHOLD /\ is_good_knee
             THEN Feedback3(rep_counter + 1, "up", "Rep Complete! Hinge forward for the next one.",
                            feedback_text, "Rep complete.")
             ELSE IF hinge_angle < HINGE_BOTTOM_THRESHOLD
             THEN Feedback3(rep_counter, exercise_state,
                            IF cf0 = "" THEN "Drive up! Find the lockout." ELSE cf0,
                            feedback_text, sp0)
             ELSE Feedback3(rep_counter, exercise_state,
                            IF cf0 = "" THEN "Drive up slowly using glutes." ELSE cf0,
                            feedback_text, sp0)
        ELSE Feedback3(rep_counter, exercise_state, cf0, feedback_text, sp0)

\* process_shoulder_press, had it counted the rep when the arms reach the bottom.
process_shoulder_press_count_at_bottom(elbow_angle, arm_raised, rep_counter, exercise_state, feedback_text) ==
    LET ELBOW_EXTENDED_THRESHOLD == 140
        ELBOW_LOWERED_THRESHOLD == 130
        ELBOW_START_THRESHOLD == 145
        is_extended == elbow_angle > ELBOW_EXTENDED_THRESHOLD /\ arm_raised
        is_lowered == elbow_angle < ELBOW_LOWERED_THRESHOLD
        cf0 == IF elbow_angle < 80 /\ ~is_lowered THEN "Extend your arms more!"
               ELSE IF is_extended /\ ~arm_raised THEN "Press your arms higher overhead!"
               ELSE ""
        sp0 == IF elbow_angle < 80 /\ ~is_lowered THEN "Extend arms."
               ELSE IF is_extended /\ ~arm_raised THEN "Press higher."
               ELSE ""
    IN  IF exercise_state = "up"
        THEN IF is_extended
             THEN IF elbow_angle < ELBOW_START_THRESHOLD
                  THEN Feedback3(rep_counter, "down", "Lower your arms to shoulder level.",
                                 feedback_text, "Lower.")
                  ELSE Feedback3(rep_counter, exercise_state,
                                 IF cf0 = "" THEN "Ready! Lower your arms to begin rep." ELSE cf0,
                                 feedback_text,
                                 IF rep_counter = 0 /\ sp0 = "" THEN "Lower to start." ELSE sp0)
             ELSE IF is_lowered
                  THEN Feedback3(rep_counter, "down", "Continue lowering, then press up.",
                                 feedback_text, "Lower.")
                  ELSE Feedback3(rep_counter, exercise_state, "Press arms up overhead (Elbow: N)",
                                 feedback_text, sp0)
        ELSE IF exercise_state = "down"
        THEN IF is_lowered
             THEN Feedback3(rep_counter + 1, "recovering",
                            IF cf0 = "" THEN "Good! Now press up overhead." ELSE cf0,
                            feedback_text,
                            IF cf0 = "" /\ sp0 = "" THEN "Press up." ELSE sp0)
             ELSE Feedback3(rep_counter, exercise_state,
                            IF cf0 = "" THEN "Lower your arms more to shoulder level." ELSE cf0,
                            feedback_text,
                            IF cf0 = "" /\ sp0 = "" THEN "Lower." ELSE sp0)
        ELSE IF exercise_state = "recovering"
        THEN IF is_extended
             THEN Feedback3(rep_counter, "up", "Rep Complete! Lower for the next one.",
                            feedback_text, "Rep complete.")
             ELSE IF is_lowered
             THEN Feedback3(rep_counter, exercise_state,
                            IF cf0 = "" THEN "Press up! Full extension overhead!" ELSE cf0,
                            feedback_text, sp0)
             ELSE Feedback3(rep_counter, exercise_state,
                            IF cf0 = "" THEN "Keep pressing up! Lock out overhead!" ELSE cf0,
                            feedback_text, sp0)
        ELSE Feedback3(rep_counter, exercise_state, cf0, feedback_text, sp0)

process_shoulder_press(elbow_angle, arm_raised, rep_counter, exercise_state, feedback_text) ==
    LET ELBOW_EXTENDED_THRESHOLD == 140
        ELBOW_LOWERED_THRESHOLD == 130
        ELBOW_START_THRESHOLD == 145
        is_extended == elbow_angle > ELBOW_EXTENDED_THRESHOLD /\ arm_raised
        is_lowered == elbow_angle < ELBOW_LOWERED_THRESHOLD
        cf0 == IF elbow_angle < 80 /\ ~is_lowered THEN "Extend your arms more!"
               ELSE IF is_extended /\ ~arm_raised THEN "Press your arms higher overhead!"
               ELSE ""
        sp0 == IF elbow_angle < 80 /\ ~is_lowered THEN "Extend arms."
               ELSE IF is_extended /\ ~arm_raised THEN "Press higher."
               ELSE ""
    IN  IF exercise_state = "up"
        THEN IF is_extended
             THEN IF elbow_angle < ELBOW_START_THRESHOLD
                  THEN Feedback3(rep_counter, "down", "Lower your arms to shoulder level.",
                                 feedback_text, "Lower.")
                  ELSE Feedback3(rep_counter, exercise_state,
                                 IF cf0 = "" THEN "Ready! Lower your arms to begin rep." ELSE cf0,
                                 feedback_text,
                                 IF rep_counter = 0 /\ sp0 = "" THEN "Lower to start." ELSE sp0)
             ELSE IF is_lowered
                  THEN Feedback3(rep_counter, "down", "Continue lowering, then press up.",
                                 feedback_text, "Lower.")
                  ELSE Feedback3(rep_counter, exercise_state, "Press arms up overhead (Elbow: N)",
                                 feedback_text, sp0)
        ELSE IF exercise_state = "down"
        THEN IF is_lowered
             THEN Feedback3(rep_counter, "recovering",
                            IF cf0 = "" THEN "Good! Now press up overhead." ELSE cf0,
                            feedback_text,
                            IF cf0 = "" /\ sp0 = "" THEN "Press up." ELSE sp0)
             ELSE Feedback3(rep_counter, exercise_state,
                            IF cf0 = "" THEN "Lower your arms more to shoulder level." ELSE cf0,
                            feedback_text,
                            IF cf0 = "" /\ sp0 = "" THEN "Lower." ELSE sp0)
        ELSE IF exercise_state = "recovering"
        THEN IF is_extended
             THEN Feedback3(rep_counter + 1, "up", "Rep Complete! Lower for the next one.",
                            feedback_text, "Rep complete.")
             ELSE IF is_lowered
             THEN Feedback3(rep_counter, exercise_state,
                            IF cf0 = "" THEN "Press up! Full extension overhead!" ELSE cf0,
                            feedback_text, sp0)
             ELSE Feedback3(rep_counter, exercise_state,
                            IF cf0 = "" THEN "Keep pressing up! Lock out overhead!" ELSE cf0,
                            feedback_text, sp0)
        ELSE Feedback3(rep_counter, exercise_state, cf0, feedback_text, sp0)

(***************************************************************************)
(* RepWiseYolo/exercise_logic/plank.py: the timed hold.                    *)
(***************************************************************************)
PLANK_STOPPED == 0

PlankRes(base, start, f, sp) == [base |-> base, start |-> start, fb |-> f, speech |-> sp]

\* process_plank, had the pause kept the base without the running segment.
process_plank_dropping_segment(hip_conf, ankle_conf, hip_angle, elbow_angle, current_time, total_held_duration_base, segment_start, feedback_text) ==
    LET STRAIGHT_BACK_MIN == 170
        STRAIGHT_BACK_MAX == 185
        is_form_detectable == hip_conf > 5 /\ ankle_conf > 5
        is_elbow_plank == elbow_angle < 130
        hip_bad == hip_angle < STRAIGHT_BACK_MIN \/ hip_angle > STRAIGHT_BACK_MAX
        elbow_bad == is_elbow_plank /\ ~(70 < elbow_angle /\ elbow_angle < 120)
        is_good_form == ~(is_form_detectable /\ (hip_bad \/ elbow_bad))
        time_since_segment_start ==
            IF segment_start > PLANK_STOPPED THEN current_time - segment_start ELSE 0
        duration_to_report == total_held_duration_base + time_since_segment_start
    IN  IF segment_start = PLANK_STOPPED
        THEN IF is_form_detectable /\ is_good_form
             THEN PlankRes(total_held_duration_base, current_time,
                           "RUNNING: Timer resumed! Maintain this form.", "Timer running.")
             ELSE PlankRes(total_held_duration_base, segment_start,
                           IF ~is_form_detectable
                           THEN "POSE LOST: PAUSED. Total held: mm:ss.mmm"
                           ELSE "FORM BREAK: PAUSED. Total held: mm:ss.mmm",
                           IF is_form_detectable /\ hip_angle < STRAIGHT_BACK_MIN THEN "Hips up!"
                           ELSE IF is_form_detectable /\ hip_angle > STRAIGHT_BACK_MAX
                           THEN "Hips down."
                           ELSE "")
        ELSE IF is_form_detectable /\ is_good_form
             THEN PlankRes(total_held_duration_base, segment_start,
                           "HOLDING: mm:ss.mmm / Perfect form! Keep holding strong.", "")
             ELSE PlankRes(total_held_duration_base, PLANK_STOPPED,
                           IF ~is_form_detectable
                           THEN "PAUSED! Pose lost.. Total: mm:ss.mmm"
                           ELSE "PAUSED! Form failed.. Total: mm:ss.mmm",
                           "Stop. Form break.")

\* process_plank, had a paused timer resumed on any frame without a form fault.
process_plank_resuming_unseen(hip_conf, ankle_conf, hip_angle, elbow_angle, current_time, total_held_duration_base, segment_start, feedback_text) ==
    LET STRAIGHT_BACK_MIN == 170
        STRAIGHT_BACK_MAX == 185
        is_form_detectable == hip_conf > 5 /\ ankle_conf > 5
        is_elbow_plank == elbow_angle < 130
        hip_bad == hip_angle < STRAIGHT_BACK_MIN \/ hip_angle > STRAIGHT_BACK_MAX
        elbow_bad == is_elbow_plank /\ ~(70 < elbow_angle /\ elbow_angle < 120)
        is_good_form == ~(is_form_detectable /\ (hip_bad \/ elbow_bad))
        time_since_segment_start ==
            IF segment_start > PLANK_STOPPED THEN current_time - segment_start ELSE 0
        duration_to_report == total_held_duration_base + time_since_segment_start
    IN  IF segment_start = PLANK_STOPPED
        THEN IF is_good_form
             THEN PlankRes(total_held_duration_base, current_time,
                           "RUNNING: Timer resumed! Maintain this form.", "Timer running.")
             ELSE PlankRes(total_held_duration_base, segment_start,
                           IF ~is_form_detectable
                           THEN "POSE LOST: PAUSED. Total held: mm:ss.mmm"
                           ELSE "FORM BREAK: PAUSED. Total held: mm:ss.mmm",
                           IF is_form_detectable /\ hip_angle < STRAIGHT_BACK_MIN THEN "Hips up!"
                           ELSE IF is_form_detectable /\ hip_angle > STRAIGHT_BACK_MAX
                           THEN "Hips down."
                           ELSE "")
        ELSE IF is_form_detectable /\ is_good_form
             THEN PlankRes(total_held_duration_base, segment_start,
                           "HOLDING: mm:ss.mmm / Perfect form! Keep holding strong.", "")
             ELSE PlankRes(duration_to_report, PLANK_STOPPED,
                           IF ~is_form_detectable
                           THEN "PAUSED! Pose lost.. Total: mm:ss.mmm"
                           ELSE "PAUSED! Form failed.. Total: mm:ss.mmm",
                           "Stop. Form break.")

process_plank(hip_conf, ankle_conf, hip_angle, elbow_angle, current_time, total_held_duration_base, segment_start, feedback_text) ==
    LET STRAIGHT_BACK_MIN == 170
        STRAIGHT_BACK_MAX == 185
        is_form_detectable == hip_conf > 5 /\ ankle_conf > 5
        is_elbow_plank == elbow_angle < 130
        hip_bad == hip_angle < STRAIGHT_BACK_MIN \/ hip_angle > STRAIGHT_BACK_MAX
        elbow_bad == is_elbow_plank /\ ~(70 < elbow_angle /\ elbow_angle < 120)
        is_good_form == ~(is_form_detectable /\ (hip_bad \/ elbow_bad))
        time_since_segment_start ==
            IF segment_start > PLANK_STOPPED THEN current_time - segment_start ELSE 0
        duration_to_report == total_held_duration_base + time_since_segment_start
    IN  IF segment_start = PLANK_STOPPED
        THEN IF is_form_detectable /\ is_good_form
             THEN PlankRes(total_held_duration_base, current_time,
                           "RUNNING: Timer resumed! Maintain this form.", "Timer running.")
             ELSE PlankRes(total_held_duration_base, segment_start,
                           IF ~is_form_detectable
                           THEN "POSE LOST: PAUSED. Total held: mm:ss.mmm"
                           ELSE "FORM BREAK: PAUSED. Total held: mm:ss.mmm",
                           IF is_form_detectable /\ hip_angle < STRAIGHT_BACK_MIN THEN "Hips up!"
                           ELSE IF is_form_detectable /\ hip_angle > STRAIGHT_BACK_MAX
                           THEN "Hips down."
                           ELSE "")
        ELSE IF is_form_detectable /\ is_good_form
             THEN PlankRes(total_held_duration_base, segment_start,
                           "HOLDING: mm:ss.mmm / Perfect form! Keep holding strong.", "")
             ELSE PlankRes(duration_to_report, PLANK_STOPPED,
                           IF ~is_form_detectable
                           THEN "PAUSED! Pose lost.. Total: mm:ss.mmm"
                           ELSE "PAUSED! Form failed.. Total: mm:ss.mmm",
                           "Stop. Form break.")

(***************************************************************************)
(* WorkoutAnalyzer of the two main.py.  feedback_history is write-only and *)
(* is left out.                                                            *)
(***************************************************************************)
IssueCategories == { "Back not straight", "Hip Alignment Issue", "Insufficient depth",
                     "Elbow positioning", "Leaning back", "Squatting instead of hinging" }

analyzer_reset ==
    [ total_reps |-> 0, good_reps |-> 0, frame_count |-> 0,
      good_form_frames |-> 0, bad_form_frames |-> 0,
      depth_issues |-> 0, back_issues |-> 0, elbow_issues |-> 0,
      form_issues |-> [c \in IssueCategories |-> 0],
      rep_timestamps |-> << >>, total_duration_held |-> 0 ]

\* The issue categories log_frame matches in feedback_text.
matched_issues(drv, feedback_text) ==
    { c \in IssueCategories :
        \/ /\ c = "Back not straight"
           /\ ContainsLower("back", feedback_text)
           /\ \/ ContainsLower("straight", feedback_text)
              \/ (drv = "yolo" /\ ContainsLower("flat", feedback_text))
        \/ /\ c = "Hip Alignment Issue"
           /\ drv = "yolo"
           /\ \/ ContainsLower("hips up", feedback_text)
              \/ ContainsLower("hips down", feedback_text)
        \/ /\ c = "Insufficient depth"
           /\ \/ ContainsLower("depth", feedback_text)
              \/ ContainsLower("parallel", feedback_text)
        \/ /\ c = "Elbow positioning"
           /\ \/ ContainsLower("elbow", feedback_text)
              \/ ContainsLower("tuck", feedback_text)
        \/ /\ c = "Leaning back"
           /\ ContainsLower("lean", feedback_text)
        \/ /\ c = "Squatting instead of hinging"
           /\ ContainsLower("squat", feedback_text)
           /\ ContainsLower("don't", feedback_text) }

\* log_frame, had it counted the back category once for each of its keywords.
log_frame_per_keyword(drv, a, feedback_text, has_good_form) ==
    LET hit == matched_issues(drv, feedback_text)
        Inc(cond, n) == IF cond THEN n + 1 ELSE n
        Back(n) == IF "Back not straight" \in hit THEN n + 2 ELSE n
    IN  [ a EXCEPT
            !.frame_count = @ + 1,
            !.good_form_frames = Inc(has_good_form, @),
            !.bad_form_frames = Inc(~has_good_form, @),
            !.back_issues = Back(@),
            !.depth_issues = Inc("Insufficient depth" \in hit, @),
            !.elbow_issues = Inc("Elbow positioning" \in hit, @),
            !.form_issues = [c \in IssueCategories |->
                               IF c = "Back not straight" THEN Back(@[c])
                               ELSE Inc(c \in hit, @[c])] ]

log_frame(drv, a, feedback_text, has_good_form) ==
    LET hit == matched_issues(drv, feedback_text)
        Inc(cond, n) == IF cond THEN n + 1 ELSE n
    IN  [ a EXCEPT
            !.frame_count = @ + 1,
            !.good_form_frames = Inc(has_good_form, @),
            !.bad_form_frames = Inc(~has_good_form, @),
            !.back_issues = Inc("Back not straight" \in hit, @),
            !.depth_issues = Inc("Insufficient depth" \in hit, @),
            !.elbow_issues = Inc("Elbow positioning" \in hit, @),
            !.form_issues = [c \in IssueCategories |-> Inc(c \in hit, @[c])] ]

\* log_rep, had it counted every rep as good.
log_rep_always_good(a, is_good_form) ==
    [ a EXCEPT
        !.total_reps = @ + 1,
        !.rep_timestamps = Append(@, a.frame_count),
        !.good_reps = @ + 1 ]

log_rep(a, is_good_form) ==
    [ a EXCEPT
        !.total_reps = @ + 1,
        !.rep_timestamps = Append(@, a.frame_count),
        !.good_reps = IF is_good_form THEN @ + 1 ELSE @ ]

\* log_duration, had it stored the duration it is given.
log_duration_latest(a, duration_in_seconds) ==
    [ a EXCEPT !.total_duration_held = duration_in_seconds ]

log_duration(a, duration_in_seconds) ==
    [ a EXCEPT !.total_duration_held =
                   IF duration_in_seconds > @ THEN duration_in_seconds ELSE @ ]

\* form_score of get_analysis_summary, for frame_count > 0: Python's
\* int((good_form_frames / frame_count) * 100).  The float product, truncated,
\* is this integer quotient for every frame_count below 50.
form_score(a) == (a.good_form_frames * 100) \div a.frame_count

(***************************************************************************)
(* get_exercise_processor: the rule module of an exercise, applied to the  *)
(* metrics f of a frame.  f.a is the module's primary metric, f.b and f.c  *)
(* its further metrics, in the order of the module's parameters.           *)
(***************************************************************************)
RepExercises ==
    { "pushup", "barbell_squat", "air_squat", "deadlift", "chest_press", "shoulder_press",
      "pull_up", "donkey_calf_raise", "forward_lunge", "jump_squat",
      "bulgarian_split_squat", "crunches", "laying_leg_raises", "russian_twist",
      "side_plank_up_down", "elbow_side_plank", "pike_press", "overhead_squat",
      "chin_ups", "glute_bridge", "kickbacks", "single_leg_rdl", "good_mornings" }

exercise_processor(ex, f, jumping, rep_counter, exercise_state, feedback_text) ==
    CASE ex = "barbell_squat" ->
            process_barbell_squat(f.a, f.b, rep_counter, exercise_state, feedback_text)
      [] ex = "air_squat" ->
            process_air_squat(f.a, f.b, rep_counter, exercise_state, feedback_text)
      [] ex = "deadlift" ->
            process_deadlift(f.a, f.b, rep_counter, exercise_state, feedback_text)
      [] ex = "chest_press" ->
            process_chest_press(f.a, f.b, rep_counter, exercise_state, feedback_text)
      [] ex = "shoulder_press" ->
            process_shoulder_press(f.a, f.b = 1, rep_counter, exercise_state, feedback_text)
      [] ex = "pull_up" ->
            process_pull_up(f.a, rep_counter, exercise_state, feedback_text)
      [] ex = "donkey_calf_raise" ->
            process_donkey_calf_raise(f.a, f.b, rep_counter, exercise_state, feedback_text)
      [] ex = "forward_lunge" ->
            process_lunge(f.a, f.b, rep_counter, exercise_state, feedback_text)
      [] ex = "jump_squat" ->
            process_jump_squat(f.a, f.b, jumping, rep_counter, exercise_state, feedback_text)
      [] ex = "bulgarian_split_squat" ->
            process_bulgarian_split_squat(f.a, f.b, rep_counter, exercise_state, feedback_text)
      [] ex = "crunches" ->
            process_crunches(f.a, rep_counter, exercise_state, feedback_text)
      [] ex = "laying_leg_raises" ->
            process_laying_leg_raises(f.a, f.b, rep_counter, exercise_state, feedback_text)
      [] ex = "russian_twist" ->
            process_russian_twist(f.a, f.b, rep_counter, exercise_state, feedback_text)
      [] ex = "side_plank_up_down" ->
            process_side_plank_up_down(f.a, f.b, rep_counter, exercise_state, feedback_text)
      [] ex = "elbow_side_plank" ->
            process_elbow_side_plank(f.a, f.b, rep_counter, exercise_state, feedback_text)
      [] ex = "pike_press" ->
            process_pike_press(f.a, f.b, rep_counter, exercise_state, feedback_text)
      [] ex = "overhead_squat" ->
            process_overhead_squat(f.a, f.b, f.c, rep_counter, exercise_state, feedback_text)
      [] ex = "chin_ups" ->
            process_chin_ups(f.a, f.b, f.c, rep_counter, exercise_state, feedback_text)
      [] ex = "glute_bridge" ->
            process_glute_bridge(f.a, rep_counter, exercise_state, feedback_text)
      [] ex = "kickbacks" ->
            process_kickbacks(f.a, f.b, rep_counter, exercise_state, feedback_text)
      [] ex = "single_leg_rdl" ->
            process_single_leg_rdl(f.a, f.b, rep_counter, exercise_state, feedback_text)
      [] ex = "good_mornings" ->
            process_good_mornings(f.a, f.b, rep_counter, exercise_state, feedback_text)
      [] OTHER ->
            process_pushup(f.a, f.b, rep_counter, exercise_state, feedback_text)

(***************************************************************************)
(* The frames fed to the modules: every metric one below, at and one above *)
(* each threshold the module compares it with.                             *)
(***************************************************************************)
Around(T) == {T - 1, T, T + 1}

\* The thresholds of the module's primary metric.
Thresholds(ex) ==
    CASE ex \in {"pushup", "pull_up", "chest_press", "pike_press", "chin_ups",
                 "barbell_squat", "overhead_squat", "deadlift"} -> {90, 160}
      [] ex \in {"forward_lunge", "bulgarian_split_squat"} -> {95, 160}
      [] ex = "jump_squat" -> {100, 165}
      [] ex = "laying_leg_raises" -> {90, 170}
      [] ex = "single_leg_rdl" -> {110, 170}
      [] ex = "side_plank_up_down" -> {0, 150}
      [] ex = "donkey_calf_raise" -> {90, 150}
      [] ex = "kickbacks" -> {90, 170}
      [] ex = "crunches" -> {160, 175}
      [] ex = "glute_bridge" -> {110, 165}
      [] ex = "russian_twist" -> {ROTATION_LEFT_THRESHOLD, ROTATION_RIGHT_THRESHOLD}
      [] ex = "elbow_side_plank" -> {170}
      [] ex = "air_squat" -> {95, 160, 165}
      [] ex = "good_mornings" -> {70, 158, 165}
      [] ex = "shoulder_press" -> {130, 140, 145}
      [] ex = "plank" -> {170}

PrimaryValues(ex) == UNION { Around(T) : T \in Thresholds(ex) }

SecondValues(ex) ==
    CASE ex = "pushup" -> Around(160)
      [] ex \in {"jump_squat", "barbell_squat", "overhead_squat"} -> Around(80)
      [] ex = "chest_press" -> Around(90)
      [] ex \in {"forward_lunge", "bulgarian_split_squat"} -> Around(150)
      [] ex = "chin_ups" -> Around(180)
      [] ex = "laying_leg_raises" -> Around(170)
      [] ex = "single_leg_rdl" -> Around(150) \cup Around(175)
      [] ex = "side_plank_up_down" -> Around(160)
      [] ex = "donkey_calf_raise" -> Around(110)
      [] ex = "pike_press" -> Around(45) \cup Around(70)
      [] ex = "kickbacks" -> Around(70) \cup Around(140)
      [] ex = "deadlift" -> Around(130) \cup Around(160)
      [] ex = "russian_twist" -> Around(BACK_FLAT_THRESHOLD)
      [] ex = "elbow_side_plank" -> Around(50)
      [] ex = "air_squat" -> Around(100)
      [] ex = "good_mornings" -> Around(160) \cup Around(178)
      [] ex = "shoulder_press" -> {0, 1}
      [] ex = "plank" -> {70, 71, 130}
      [] OTHER -> {0}

ThirdValues(ex) ==
    CASE ex = "overhead_squat" -> Around(165)
      [] ex = "chin_ups" -> {200}
      [] ex = "jump_squat" -> {200, 240}
      [] ex = "plank" -> {5, 6}
      [] OTHER -> {0}

Frames(ex) ==
    { [a |-> x, b |-> y, c |-> z] :
        x \in PrimaryValues(ex), y \in SecondValues(ex), z \in ThirdValues(ex) }

NoFrame == [a |-> 0, b |-> 0, c |-> 0]

\* No recorded-video analysis is running; no helper function was called.
NoRecording == << >>

NoCall == << >>

\* No video was opened, no session has ended, no speech path was exercised,
\* posture_corrector.py is not running.
NoVideo == << >>

NoReport == << >>

NoSpeech == << >>

NoBuffers == << >>


(***************************************************************************)
(* run_live_mode of RepWise/main.py ("mediapipe") and RepWiseYolo/main.py  *)
(* ("yolo"): one action per way a frame of the loop is handled.            *)
(***************************************************************************)
Drivers == {"mediapipe", "yolo"}

\* The modules with the phases up, down and recovering.
ThreePhaseExercises == {"air_squat", "good_mornings", "shoulder_press"}

\* The frames a session is followed for: long enough for two reps.
FrameLimit(ex) == IF ex \in ThreePhaseExercises THEN MaxThreePhaseFrames ELSE MaxFrames

\* The exercises of a driver's menu that get their own processor.
Exercises(drv) == IF drv = "yolo" THEN RepExercises \cup {"plank"} ELSE RepExercises

is_time_based(drv, ex) == drv = "yolo" /\ ex = "plank"

is_upper_body_exercise(drv, ex) == drv = "yolo" /\ ex = "shoulder_press"

\* The landmarks whose confidence the driver's visibility check reads.
Anchors(drv, ex) ==
    IF is_upper_body_exercise(drv, ex)
    THEN {"NOSE", "LEFT_SHOULDER", "RIGHT_SHOULDER", "LEFT_WRIST", "RIGHT_WRIST"}
    ELSE {"NOSE", "LEFT_ANKLE", "RIGHT_ANKLE"}

\* Confidences at and just above the 0.5 the check compares with.
Conf == {5, 6}

\* What pose estimation can return for a frame: nobody, or a person with
\* some confidence for every anchor.
Detections(drv, ex) ==
    { [detected |-> FALSE, vis |-> [j \in Anchors(drv, ex) |-> 0]] }
    \cup { [detected |-> TRUE, vis |-> v] : v \in [Anchors(drv, ex) -> Conf] }

NoDetection == [detected |-> FALSE, vis |-> << >>]

is_visible(drv, ex, q) ==
    /\ q.detected
    /\ IF is_upper_body_exercise(drv, ex)
       THEN /\ q.vis["NOSE"] > 5
            /\ q.vis["LEFT_SHOULDER"] > 5 /\ q.vis["RIGHT_SHOULDER"] > 5
            /\ q.vis["LEFT_WRIST"] > 5 /\ q.vis["RIGHT_WRIST"] > 5
       ELSE q.vis["NOSE"] > 5 /\ q.vis["LEFT_ANKLE"] > 5 /\ q.vis["RIGHT_ANKLE"] > 5

\* current_frame_feedback as it stands when the visibility check is over.
reacquire_feedback(drv, ex, q) ==
    IF q.detected /\ is_upper_body_exercise(drv, ex)
    THEN "CENTER TORSO AND ARMS"
    ELSE "CENTER AND SHOW ENTIRE BODY"

\* has_good_form as run_live_mode computes it for log_rep and for log_frame.
rep_has_good_form(feedback_text) ==
    ContainsLower("good", feedback_text) \/ ContainsLower("complete", feedback_text)

frame_has_good_form(drv, feedback_text) ==
    IF drv = "mediapipe"
    THEN ContainsLower("good", feedback_text)
    ELSE \/ ContainsLower("good", feedback_text)
         \/ ContainsLower("perfect", feedback_text)
         \/ ContainsLower("holding", feedback_text)
         \/ ContainsLower("rep complete", feedback_text)

\* The phases held since the last counted rep, without immediate repeats.
Held(tr, p) == IF tr[Len(tr)] = p THEN tr ELSE Append(tr, p)

\* The locals of run_live_mode when the frame loop is entered.
SessionStart ==
    /\ driver \in Drivers
    /\ exercise_name \in Exercises(driver)
    /\ frames_read = 0
    /\ rep_count = 0
    /\ phase = "up"
    /\ last_feedback = ""
    /\ current_frame_feedback = ""
    /\ current_speech_text = ""
    /\ analyzer = analyzer_reset
    /\ plank_start_time = PLANK_STOPPED
    /\ now = 1
    /\ hip_height_history = << >>
    /\ event = "start"
    /\ quorum = NoDetection
    /\ last_frame = NoFrame
    /\ held_true = 0
    /\ trail = << "up" >>
    /\ osc = NoFrame

Init ==
    /\ SessionStart
    /\ recorded = NoRecording
    /\ video = NoVideo /\ report = NoReport /\ speech = NoSpeech
    /\ buffers = NoBuffers
    /\ call = NoCall

\* LiveFrame, had it logged a rep in every frame that holds a counted rep.
LiveFrame_logging_held_reps(q, f) ==
    /\ quorum' = q
    /\ LET history == IF exercise_name = "jump_squat"
                      THEN push_hip_height(hip_height_history, f.c)
                      ELSE hip_height_history
           r == exercise_processor(exercise_name, f,
                                   is_jumping(history, f.c, f.a),
                                   rep_count, phase, last_feedback)
           counted == r.rep > 0
           logged == IF counted
                     THEN log_rep(analyzer, rep_has_good_form(r.fb))
                     ELSE analyzer
       IN  /\ hip_height_history' = history
           /\ rep_count' = r.rep
           /\ phase' = r.state
           /\ last_feedback' = r.fb
           /\ current_frame_feedback' = r.fb
           /\ current_speech_text' = r.speech
           /\ analyzer' = log_frame(driver, logged, r.fb,
                                    frame_has_good_form(driver, r.fb))
           /\ trail' = IF counted THEN << r.state >> ELSE Held(trail, r.state)
    /\ frames_read' = frames_read + 1
    /\ event' = "processed"
    /\ UNCHANGED << driver, exercise_name, plank_start_time, now, last_frame,
                    held_true, osc, call, video, report, speech, buffers >>

\* The try block of run_live_mode for a frame with detection q whose metrics
\* are f, when the rule module returns.
LiveFrame(q, f) ==
    /\ quorum' = q
    /\ LET history == IF exercise_name = "jump_squat"
                      THEN push_hip_height(hip_height_history, f.c)
                      ELSE hip_height_history
           r == exercise_processor(exercise_name, f,
                                   is_jumping(history, f.c, f.a),
                                   rep_count, phase, last_feedback)
           counted == r.rep > rep_count
           logged == IF counted
                     THEN log_rep(analyzer, rep_has_good_form(r.fb))
                     ELSE analyzer
       IN  /\ hip_height_history' = history
           /\ rep_count' = r.rep
           /\ phase' = r.state
           /\ last_feedback' = r.fb
           /\ current_frame_feedback' = r.fb
           /\ current_speech_text' = r.speech
           /\ analyzer' = log_frame(driver, logged, r.fb,
                                    frame_has_good_form(driver, r.fb))
           /\ trail' = IF counted THEN << r.state >> ELSE Held(trail, r.state)
    /\ frames_read' = frames_read + 1
    /\ event' = "processed"
    /\ UNCHANGED << driver, exercise_name, plank_start_time, now, last_frame,
                    held_true, osc, call, video, report, speech, buffers >>

\* A frame of a rep-based session passes the visibility check and the rule
\* module returns.
FrameProcessed ==
    /\ driver \in Drivers
    /\ ~is_time_based(driver, exercise_name)
    /\ frames_read < FrameLimit(exercise_name)
    /\ \E q \in { d \in Detections(driver, exercise_name) :
                     is_visible(driver, exercise_name, d) },
          f \in Frames(exercise_name) :
         LiveFrame(q, f)
    /\ UNCHANGED recorded

\* FrameRaised, had the except clause reverted the phase as the lost-pose
\* branch does.
FrameRaised_reverting ==
    /\ driver \in Drivers
    /\ ~is_time_based(driver, exercise_name)
    /\ frames_read < FrameLimit(exercise_name)
    /\ \E q \in Detections(driver, exercise_name) :
         /\ is_visible(driver, exercise_name, q)
         /\ quorum' = q
    /\ \E y \in ThirdValues(exercise_name) :
         hip_height_history' \in
             IF exercise_name = "jump_squat"
             THEN {hip_height_history, push_hip_height(hip_height_history, y)}
             ELSE {hip_height_history}
    /\ current_frame_feedback' = "Error processing pose data."
    /\ current_speech_text' = ""
    /\ phase' = "up"
    /\ trail' = Held(trail, "up")
    /\ frames_read' = frames_read + 1
    /\ event' = "raised"
    /\ UNCHANGED << driver, exercise_name, rep_count, last_feedback, analyzer,
                    plank_start_time, now, last_frame, held_true, osc, recorded, call,
                    video, report, speech, buffers >>

\* A frame of a rep-based session passes the visibility check and the rule
\* module raises: the except clause only replaces the frame's feedback.
FrameRaised ==
    /\ driver \in Drivers
    /\ ~is_time_based(driver, exercise_name)
    /\ frames_read < FrameLimit(exercise_name)
    /\ \E q \in Detections(driver, exercise_name) :
         /\ is_visible(driver, exercise_name, q)
         /\ quorum' = q
    /\ \E y \in ThirdValues(exercise_name) :
         hip_height_history' \in
             IF exercise_name = "jump_squat"
             THEN {hip_height_history, push_hip_height(hip_height_history, y)}
             ELSE {hip_height_history}
    /\ current_frame_feedback' = "Error processing pose data."
    /\ current_speech_text' = ""
    /\ frames_read' = frames_read + 1
    /\ event' = "raised"
    /\ UNCHANGED << driver, exercise_name, rep_count, phase, last_feedback, analyzer,
                    plank_start_time, now, last_frame, held_true, trail, osc, recorded, call,
                    video, report, speech, buffers >>

\* A frame of a rep-based session shows nobody or fails the visibility check.
FrameLost ==
    /\ driver \in Drivers
    /\ ~is_time_based(driver, exercise_name)
    /\ frames_read < FrameLimit(exercise_name)
    /\ \E q \in Detections(driver, exercise_name) :
         /\ ~is_visible(driver, exercise_name, q)
         /\ quorum' = q
         /\ current_frame_feedback' = reacquire_feedback(driver, exercise_name, q)
    /\ current_speech_text' = ""
    /\ phase' = "up"
    /\ trail' = Held(trail, "up")
    /\ frames_read' = frames_read + 1
    /\ event' = "lost"
    /\ UNCHANGED << driver, exercise_name, rep_count, last_feedback, analyzer,
                    plank_start_time, now, hip_height_history, last_frame, held_true, osc, recorded, call,
                    video, report, speech, buffers >>


\* A frame of the plank session passes the visibility check and process_plank
\* returns.  time.time() is read in process_plank and, if the timer then runs,
\* once more by the driver for the displayed total; both readings of a frame
\* fall into the same tick.
PlankFrameProcessed ==
    /\ is_time_based(driver, exercise_name)
    /\ frames_read < FrameLimit(exercise_name)
    /\ \E q \in { d \in Detections(driver, exercise_name) :
                     is_visible(driver, exercise_name, d) },
          f \in Frames(exercise_name), d1 \in 1..MaxTick :
         /\ LET current_time == now + d1
                r == process_plank(f.c, q.vis["LEFT_ANKLE"], f.a, f.b, current_time,
                                   rep_count, plank_start_time, last_feedback)
                running == r.start # PLANK_STOPPED
                ui_time == current_time
                current_time_for_ui ==
                    IF running THEN r.base + (ui_time - r.start) ELSE r.base
            IN  /\ plank_start_time' = r.start
                /\ rep_count' = current_time_for_ui
                /\ last_feedback' = r.fb
                /\ current_frame_feedback' = r.fb
                /\ current_speech_text' = r.speech
                /\ analyzer' = log_duration(
                                   log_frame(driver, analyzer, r.fb,
                                             frame_has_good_form(driver, r.fb)),
                                   current_time_for_ui)
                /\ now' = current_time
                /\ held_true' = IF plank_start_time # PLANK_STOPPED /\ ~running
                                THEN held_true + (current_time - plank_start_time)
                                ELSE held_true
                /\ quorum' = q
                /\ last_frame' = f
    /\ frames_read' = frames_read + 1
    /\ event' = "processed"
    /\ UNCHANGED << driver, exercise_name, phase, hip_height_history, trail, osc, recorded, call,
                    video, report, speech, buffers >>

\* A frame of the plank session passes the visibility check and process_plank
\* raises: nothing of the timer is assigned.
PlankFrameRaised ==
    /\ is_time_based(driver, exercise_name)
    /\ frames_read < FrameLimit(exercise_name)
    /\ \E q \in Detections(driver, exercise_name) :
         /\ is_visible(driver, exercise_name, q)
         /\ quorum' = q
    /\ \E d1 \in 1..MaxTick : now' = now + d1
    /\ current_frame_feedback' = "Error processing pose data."
    /\ current_speech_text' = ""
    /\ analyzer' = log_duration(analyzer, rep_count)
    /\ frames_read' = frames_read + 1
    /\ event' = "raised"
    /\ UNCHANGED << driver, exercise_name, rep_count, phase, last_feedback,
                    plank_start_time, hip_height_history, last_frame, held_true,
                    trail, osc, recorded, call, video, report, speech, buffers >>

\* PlankFrameLost, had it added the segment time without asking whether the
\* timer runs.
PlankFrameLost_unguarded ==
    /\ is_time_based(driver, exercise_name)
    /\ frames_read < FrameLimit(exercise_name)
    /\ \E q \in Detections(driver, exercise_name), d1 \in 1..MaxTick :
         /\ ~is_visible(driver, exercise_name, q)
         /\ LET segment_time == (now + d1) - plank_start_time
                total == rep_count + segment_time
            IN  /\ rep_count' = total
                /\ analyzer' = log_duration(analyzer, total)
                /\ held_true' = IF plank_start_time # PLANK_STOPPED
                                THEN held_true + segment_time ELSE held_true
         /\ now' = now + d1
         /\ quorum' = q
    /\ plank_start_time' = PLANK_STOPPED
    /\ current_frame_feedback' = "POSE LOST: Find your plank position to resume timer."
    /\ current_speech_text' = ""
    /\ frames_read' = frames_read + 1
    /\ event' = "lost"
    /\ UNCHANGED << driver, exercise_name, phase, last_feedback, hip_height_history,
                    last_frame, trail, osc, recorded, call, video, report, speech, buffers >>

\* A frame of the plank session shows nobody or fails the visibility check:
\* the driver closes the running segment, if any, and pauses the timer.
PlankFrameLost ==
    /\ is_time_based(driver, exercise_name)
    /\ frames_read < FrameLimit(exercise_name)
    /\ \E q \in Detections(driver, exercise_name), d1 \in 1..MaxTick :
         /\ ~is_visible(driver, exercise_name, q)
         /\ LET segment_time == (now + d1) - plank_start_time
                total == IF plank_start_time # PLANK_STOPPED
                         THEN rep_count + segment_time ELSE rep_count
            IN  /\ rep_count' = total
                /\ analyzer' = log_duration(analyzer, total)
                /\ held_true' = IF plank_start_time # PLANK_STOPPED
                                THEN held_true + segment_time ELSE held_true
         /\ now' = now + d1
         /\ quorum' = q
    /\ plank_start_time' = PLANK_STOPPED
    /\ current_frame_feedback' = "POSE LOST: Find your plank position to resume timer."
    /\ current_speech_text' = ""
    /\ frames_read' = frames_read + 1
    /\ event' = "lost"
    /\ UNCHANGED << driver, exercise_name, phase, last_feedback, hip_height_history,
                    last_frame, trail, osc, recorded, call, video, report, speech, buffers >>

Next ==
    \/ FrameProcessed
    \/ FrameRaised
    \/ FrameLost
    \/ PlankFrameProcessed
    \/ PlankFrameRaised
    \/ PlankFrameLost

Spec == Init /\ [][Next]_vars


(***************************************************************************)
(* The rule modules on their own: a module is called, from any phase, on   *)
(* any frame, and called again on what it returned.                        *)
(***************************************************************************)
Phases(ex) ==
    IF ex \in ThreePhaseExercises THEN {"up", "down", "recovering"}
    ELSE IF ex = "russian_twist" THEN {"up", "left", "right"}
    ELSE {"up", "down"}

InitModule ==
    /\ driver = "none"
    /\ exercise_name \in RepExercises
    /\ frames_read = 0
    /\ rep_count = 0
    /\ phase \in Phases(exercise_name)
    /\ last_feedback = ""
    /\ current_frame_feedback = ""
    /\ current_speech_text = ""
    /\ analyzer = analyzer_reset
    /\ plank_start_time = PLANK_STOPPED
    /\ now = 1
    /\ hip_height_history = << >>
    /\ event = "start"
    /\ quorum = NoDetection
    /\ last_frame = NoFrame
    /\ held_true = 0
    /\ trail = << phase >>
    /\ osc = NoFrame
    /\ recorded = NoRecording
    /\ video = NoVideo /\ report = NoReport /\ speech = NoSpeech
    /\ buffers = NoBuffers
    /\ call = NoCall

\* The effect of one call of the exercise's rule module on frame f.
Call(f) ==
    LET history == IF exercise_name = "jump_squat"
                   THEN push_hip_height(hip_height_history, f.c)
                   ELSE hip_height_history
        r == exercise_processor(exercise_name, f, is_jumping(history, f.c, f.a),
                                rep_count, phase, last_feedback)
    IN  /\ hip_height_history' = history
        /\ rep_count' = r.rep
        /\ phase' = r.state
        /\ last_feedback' = r.fb
        /\ current_frame_feedback' = r.fb
        /\ current_speech_text' = r.speech
        /\ trail' = IF r.rep > rep_count THEN << r.state >> ELSE Held(trail, r.state)
        /\ last_frame' = f
        /\ frames_read' = frames_read + 1
        /\ event' = "processed"

ModuleCall ==
    /\ driver = "none"
    /\ frames_read < MaxModuleCalls
    /\ \E f \in Frames(exercise_name) : Call(f)
    /\ UNCHANGED << driver, exercise_name, analyzer, plank_start_time, now, quorum,
                    held_true, osc, recorded, call, video, report, speech, buffers >>

NextModule == ModuleCall

SpecModule == InitModule /\ [][NextModule]_vars

(***************************************************************************)
(* The live sessions and the rule modules on their own, side by side.      *)
(***************************************************************************)
InitAll == Init \/ InitModule

NextAll == Next \/ NextModule

SpecAll == InitAll /\ [][NextAll]_vars

(***************************************************************************)
(* Oscillation: the primary metric alternates between one below and one    *)
(* above the threshold osc.a while the other metrics stay at osc.b, osc.c. *)
(***************************************************************************)
InitOsc ==
    /\ driver = "osc"
    /\ exercise_name \in RepExercises
    /\ osc \in { [a |-> T, b |-> y, c |-> z] :
                   T \in Thresholds(exercise_name), y \in SecondValues(exercise_name),
                   z \in ThirdValues(exercise_name) }
    /\ frames_read = 0
    /\ rep_count = 0
    /\ phase \in Phases(exercise_name)
    /\ last_feedback = ""
    /\ current_frame_feedback = ""
    /\ current_speech_text = ""
    /\ analyzer = analyzer_reset
    /\ plank_start_time = PLANK_STOPPED
    /\ now = 1
    /\ hip_height_history = << >>
    /\ event = "start"
    /\ quorum = NoDetection
    /\ last_frame = NoFrame
    /\ held_true = 0
    /\ trail = << phase >>
    /\ recorded = NoRecording
    /\ video = NoVideo /\ report = NoReport /\ speech = NoSpeech
    /\ buffers = NoBuffers
    /\ call = NoCall

OscFrame ==
    /\ driver = "osc"
    /\ frames_read < MaxOscFrames
    /\ \E side \in {-1, 1} :
         /\ frames_read > 0 => last_frame.a = osc.a - side
         /\ Call([a |-> osc.a + side, b |-> osc.b, c |-> osc.c])
    /\ UNCHANGED << driver, exercise_name, analyzer, plank_start_time, now, quorum,
                    held_true, osc, recorded, call, video, report, speech, buffers >>

NextOsc == OscFrame

SpecOsc == InitOsc /\ [][NextOsc]_vars


(***************************************************************************)
(* analyze_recorded_video of the two main.py.  recorded holds its locals;  *)
(* exercise_state is the state it passes to the next call of the rule      *)
(* module and returned_state the one the last call returned.               *)
(***************************************************************************)
RecordedDrivers == {"mediapipe_recorded", "yolo_recorded"}

\* The main.py a driver value stands for.
pose_engine(drv) ==
    IF drv \in {"mediapipe", "mediapipe_recorded"} THEN "mediapipe" ELSE "yolo"

\* The rule modules that return speech_text as a fourth value.
FourValueModules == {"air_squat", "good_mornings", "shoulder_press", "plank"}

\* 1.0 / fps, in ticks.
frame_time_step == 1

\* PLANK_STOPPED where a rule module expects the name of a phase.
PLANK_STOPPED_as_state == "0.0"

recording_start(drv) ==
    [ rep_counter |-> 0,
      exercise_state |-> IF drv = "mediapipe" THEN "up" ELSE "down",
      returned_state |-> "",
      feedback_text |-> "",
      analyzer |-> analyzer_reset,
      hip_height_history |-> << >> ]

\* has_good_form as analyze_recorded_video computes it for log_frame.
recorded_frame_has_good_form(drv, feedback_text) ==
    IF drv = "mediapipe"
    THEN ContainsLower("good", feedback_text)
    ELSE \/ ContainsLower("good", feedback_text)
         \/ ContainsLower("perfect", feedback_text)
         \/ ContainsLower("holding", feedback_text)

\* The locals after the try block for a frame in which a pose with detection
\* q and metrics f was found and every call of the rule module returned.
analyze_frame(drv, ex, rec, q, f) ==
    LET history == IF ex = "jump_squat"
                   THEN push_hip_height(rec.hip_height_history, f.c)
                   ELSE rec.hip_height_history
        jumping == is_jumping(history, f.c, f.a)
        Logged(r) ==
            LET counted == IF r.rep > rec.rep_counter
                           THEN log_rep(rec.analyzer, rep_has_good_form(r.fb))
                           ELSE rec.analyzer
            IN  log_frame(drv, counted, r.fb, recorded_frame_has_good_form(drv, r.fb))
    IN  IF drv = "mediapipe"
        THEN LET r == exercise_processor(ex, f, jumping, rec.rep_counter,
                                         rec.exercise_state, rec.feedback_text)
             IN  [ rep_counter |-> r.rep, exercise_state |-> r.state,
                   returned_state |-> r.state, feedback_text |-> r.fb,
                   analyzer |-> Logged(r), hip_height_history |-> history ]
        ELSE IF ex \notin FourValueModules
        THEN \* the first call returns three values: unpacking them into four
             \* names raises, and the except clause skips the frame
             [ rec EXCEPT !.hip_height_history = history ]
        ELSE IF ex = "plank"
        THEN LET r == process_plank(f.c, q.vis["LEFT_ANKLE"], f.a, f.b, now,
                                    0, PLANK_STOPPED, rec.feedback_text)
                 held == IF \/ ContainsLower("perfect form", r.fb)
                            \/ ContainsLower("holding", r.fb)
                         THEN rec.rep_counter + frame_time_step
                         ELSE rec.rep_counter
             IN  [ rec EXCEPT
                     !.rep_counter = held,
                     !.feedback_text = r.fb,
                     !.analyzer = log_frame(drv, log_duration(@, held), r.fb,
                                            recorded_frame_has_good_form(drv, r.fb)) ]
        ELSE LET first == exercise_processor(ex, f, jumping, 0, PLANK_STOPPED_as_state,
                                             rec.feedback_text)
                 r == exercise_processor(ex, f, jumping, rec.rep_counter, "down", first.fb)
             IN  [ rec EXCEPT
                     !.rep_counter = r.rep,
                     !.returned_state = r.state,
                     !.feedback_text = r.fb,
                     !.analyzer = Logged(r) ]

\* What pose estimation can return for a frame of the video.
VideoDetections(drv, ex) == Detections(drv, ex)

\* The live session's variables while only analyze_recorded_video runs.
SessionIdle ==
    /\ rep_count = 0
    /\ phase = "up"
    /\ last_feedback = ""
    /\ current_frame_feedback = ""
    /\ current_speech_text = ""
    /\ analyzer = analyzer_reset
    /\ plank_start_time = PLANK_STOPPED
    /\ now = 1
    /\ hip_height_history = << >>
    /\ held_true = 0
    /\ trail = << "up" >>
    /\ osc = NoFrame

InitRecorded ==
    /\ driver \in RecordedDrivers
    /\ exercise_name \in Exercises(pose_engine(driver))
    /\ frames_read = 0
    /\ event = "start"
    /\ quorum = NoDetection
    /\ last_frame = NoFrame
    /\ SessionIdle
    /\ recorded = recording_start(pose_engine(driver))
    /\ video = NoVideo /\ report = NoReport /\ speech = NoSpeech
    /\ buffers = NoBuffers
    /\ call = NoCall

\* A frame of the video in which a pose is found and the rule module returns.
RecordedFrameProcessed ==
    /\ driver \in RecordedDrivers
    /\ frames_read < MaxVideoFrames
    /\ \E q \in { d \in VideoDetections(pose_engine(driver), exercise_name) : d.detected } :
         /\ recorded' \in { analyze_frame(pose_engine(driver), exercise_name, recorded, q, f) :
                               f \in Frames(exercise_name) }
         /\ quorum' = q
    /\ frames_read' = frames_read + 1
    /\ event' = "processed"
    /\ UNCHANGED << driver, exercise_name, rep_count, phase, last_feedback,
                    current_frame_feedback, current_speech_text, analyzer,
                    plank_start_time, now, hip_height_history, last_frame, held_true, trail,
                    osc, call, video, report, speech, buffers >>

\* A frame of the video in which a pose is found and the rule module raises:
\* the bare except clause passes.  The YOLO driver has by then assigned the
\* feedback of its first call, if it is the second call that raises.
RecordedFrameRaised ==
    /\ driver \in RecordedDrivers
    /\ frames_read < MaxVideoFrames
    /\ \E q \in { d \in VideoDetections(pose_engine(driver), exercise_name) : d.detected } :
         quorum' = q
    /\ recorded' \in
         {recorded}
         \cup { [recorded EXCEPT !.hip_height_history = push_hip_height(@, f.c)] :
                  f \in IF exercise_name = "jump_squat"
                        THEN Frames(exercise_name) ELSE {} }
         \cup { [recorded EXCEPT !.feedback_text =
                     exercise_processor(exercise_name, f, FALSE, 0,
                                        PLANK_STOPPED_as_state, @).fb] :
                  f \in IF /\ pose_engine(driver) = "yolo"
                           /\ exercise_name \in FourValueModules \ {"plank"}
                        THEN Frames(exercise_name) ELSE {} }
    /\ frames_read' = frames_read + 1
    /\ event' = "raised"
    /\ UNCHANGED << driver, exercise_name, rep_count, phase, last_feedback,
                    current_frame_feedback, current_speech_text, analyzer,
                    plank_start_time, now, hip_height_history, last_frame, held_true, trail,
                    osc, call, video, report, speech, buffers >>

\* A frame of the video in which no pose is found: the MediaPipe driver
\* raises on results.pose_landmarks and passes, the YOLO driver skips it.
RecordedFrameNoPose ==
    /\ driver \in RecordedDrivers
    /\ frames_read < MaxVideoFrames
    /\ \E q \in { d \in VideoDetections(pose_engine(driver), exercise_name) : ~d.detected } :
         quorum' = q
    /\ frames_read' = frames_read + 1
    /\ event' = "lost"
    /\ UNCHANGED << driver, exercise_name, rep_count, phase, last_feedback,
                    current_frame_feedback, current_speech_text, analyzer,
                    plank_start_time, now, hip_height_history, last_frame, held_true, trail,
                    osc, recorded, call, video, report, speech, buffers >>

NextRecorded ==
    \/ RecordedFrameProcessed
    \/ RecordedFrameRaised
    \/ RecordedFrameNoPose

SpecRecorded == InitRecorded /\ [][NextRecorded]_vars

(***************************************************************************)
(* run_live_mode and analyze_recorded_video of the same main.py fed the    *)
(* same frames, every one of which passes the live visibility check.       *)
(***************************************************************************)
InitSameFrames ==
    /\ SessionStart
    /\ exercise_name \in RepExercises
    /\ recorded = recording_start(driver)
    /\ video = NoVideo /\ report = NoReport /\ speech = NoSpeech
    /\ buffers = NoBuffers
    /\ call = NoCall

SameFrame ==
    /\ driver \in Drivers
    /\ recorded # NoRecording
    /\ frames_read < FrameLimit(exercise_name)
    /\ \E q \in { d \in Detections(driver, exercise_name) :
                     is_visible(driver, exercise_name, d) },
          f \in Frames(exercise_name) :
         /\ LiveFrame(q, f)
         /\ recorded' = analyze_frame(driver, exercise_name, recorded, q, f)

NextSameFrames == SameFrame

SpecSameFrames == InitSameFrames /\ [][NextSameFrames]_vars

(***************************************************************************)
(* The live sessions and the recorded analyses, side by side.              *)
(***************************************************************************)
InitDrivers == Init \/ InitRecorded

NextDrivers == Next \/ NextRecorded

SpecDrivers == InitDrivers /\ [][NextDrivers]_vars


(***************************************************************************)
(* The live sessions when pose estimation is unsure of a joint that the    *)
(* rule module reads and the visibility check does not look at.            *)
(***************************************************************************)
\* Such a joint: every module reads LEFT_SHOULDER, the shoulder press (whose
\* visibility check covers the shoulders) LEFT_ELBOW.
ReadJoint(drv, ex) ==
    IF is_upper_body_exercise(drv, ex) THEN "LEFT_ELBOW" ELSE "LEFT_SHOULDER"

\* Confidences below, at and above the 0.5 of the visibility check.
JointConf == {4, 5, 6}

\* Detections that pass the visibility check, with the confidence of the
\* joint the module reads.
JointDetections(drv, ex) ==
    { [detected |-> TRUE,
       vis |-> [j \in Anchors(drv, ex) \cup {ReadJoint(drv, ex)} |->
                   IF j = ReadJoint(drv, ex) THEN c ELSE v[j]]] :
        v \in { w \in [Anchors(drv, ex) -> Conf] : \A j \in Anchors(drv, ex) : w[j] > 5 },
        c \in JointConf }

InitJoint ==
    /\ Init
    /\ exercise_name \in RepExercises

FrameJointProcessed ==
    /\ driver \in Drivers
    /\ ~is_time_based(driver, exercise_name)
    /\ frames_read < FrameLimit(exercise_name)
    /\ \E q \in { d \in JointDetections(driver, exercise_name) :
                     is_visible(driver, exercise_name, d) },
          f \in Frames(exercise_name) :
         LiveFrame(q, f)
    /\ UNCHANGED recorded

NextJoint == FrameJointProcessed

SpecJoint == InitJoint /\ [][NextJoint]_vars


(***************************************************************************)
(* utils.py of RepWise ("mediapipe") and of RepWiseYolo ("yolo").          *)
(***************************************************************************)
\* The landmark positions calculate_angle is applied to.
GridPoints == { <<x, y>> : x \in 0..2, y \in 0..2 }

\* np.degrees(np.arccos(dot / (|ba| * |bc|))) to the nearest degree, by
\* <<dot, |ba|^2, |bc|^2>>, for the vectors between grid points.  The 1e-6
\* that RepWise adds to the denominator does not change the nearest degree.
ArcCosDegrees ==
    <<-2, 2, 2>> :> 180 @@ <<-1, 1, 1>> :> 180 @@ <<-1, 1, 2>> :> 135 @@
    <<-1, 1, 5>> :> 117 @@ <<-1, 2, 1>> :> 135 @@ <<-1, 5, 1>> :> 117 @@
    <<0, 1, 1>> :> 90 @@ <<0, 1, 4>> :> 90 @@ <<0, 2, 2>> :> 90 @@
    <<0, 4, 1>> :> 90 @@ <<0, 4, 4>> :> 90 @@ <<1, 1, 1>> :> 0 @@
    <<1, 1, 2>> :> 45 @@ <<1, 1, 5>> :> 63 @@ <<1, 2, 1>> :> 45 @@
    <<1, 2, 5>> :> 72 @@ <<1, 5, 1>> :> 63 @@ <<1, 5, 2>> :> 72 @@
    <<2, 1, 4>> :> 0 @@ <<2, 1, 5>> :> 27 @@ <<2, 1, 8>> :> 45 @@
    <<2, 2, 2>> :> 0 @@ <<2, 2, 4>> :> 45 @@ <<2, 4, 1>> :> 0 @@
    <<2, 4, 2>> :> 45 @@ <<2, 4, 5>> :> 63 @@ <<2, 5, 1>> :> 27 @@
    <<2, 5, 4>> :> 63 @@ <<2, 8, 1>> :> 45 @@ <<3, 2, 5>> :> 18 @@
    <<3, 5, 2>> :> 18 @@ <<3, 5, 5>> :> 53 @@ <<4, 2, 8>> :> 0 @@
    <<4, 4, 4>> :> 0 @@ <<4, 4, 5>> :> 27 @@ <<4, 4, 8>> :> 45 @@
    <<4, 5, 4>> :> 27 @@ <<4, 5, 5>> :> 37 @@ <<4, 8, 2>> :> 0 @@
    <<4, 8, 4>> :> 45 @@ <<5, 5, 5>> :> 0 @@ <<6, 5, 8>> :> 18 @@
    <<6, 8, 5>> :> 18 @@ <<8, 8, 8>> :> 0

calculate_angle(impl, a, b, c) ==
    LET ba == << a[1] - b[1], a[2] - b[2] >>
        bc == << c[1] - b[1], c[2] - b[2] >>
        dot_product == ba[1] * bc[1] + ba[2] * bc[2]
        mag_ba_sq == ba[1] * ba[1] + ba[2] * ba[2]
        mag_bc_sq == bc[1] * bc[1] + bc[2] * bc[2]
    IN  IF mag_ba_sq = 0 \/ mag_bc_sq = 0
        THEN IF impl = "yolo"
             THEN 0      \* return 0.0
             ELSE 90     \* the cosine is 0 / (0 + 1e-6) = 0
        ELSE ArcCosDegrees[<< dot_product, mag_ba_sq, mag_bc_sq >>]

\* The index of a landmark name in the detector's output.
YOLO_KEYPOINT_MAP ==
    [ NOSE |-> 0, LEFT_SHOULDER |-> 5, RIGHT_SHOULDER |-> 6, LEFT_ELBOW |-> 7,
      RIGHT_ELBOW |-> 8, LEFT_WRIST |-> 9, RIGHT_WRIST |-> 10, LEFT_HIP |-> 11,
      RIGHT_HIP |-> 12, LEFT_KNEE |-> 13, RIGHT_KNEE |-> 14, LEFT_ANKLE |-> 15,
      RIGHT_ANKLE |-> 16, LEFT_EYE |-> 1, RIGHT_EYE |-> 2, LEFT_EAR |-> 3,
      RIGHT_EAR |-> 4 ]

\* mp_pose.PoseLandmark: the members the rule modules name, and the last.
PoseLandmark ==
    [ NOSE |-> 0, LEFT_EAR |-> 7, RIGHT_EAR |-> 8, LEFT_SHOULDER |-> 11,
      RIGHT_SHOULDER |-> 12, LEFT_ELBOW |-> 13, RIGHT_ELBOW |-> 14,
      LEFT_WRIST |-> 15, RIGHT_WRIST |-> 16, LEFT_HIP |-> 23, RIGHT_HIP |-> 24,
      LEFT_KNEE |-> 25, RIGHT_KNEE |-> 26, LEFT_ANKLE |-> 27, RIGHT_ANKLE |-> 28,
      LEFT_FOOT_INDEX |-> 31, RIGHT_FOOT_INDEX |-> 32 ]

\* Python's round() of a non-negative number given in tenths: the nearest
\* integer, a tie going to the even one.
py_round(tenths) ==
    LET q == tenths \div 10
        r == tenths % 10
    IN  IF r < 5 THEN q
        ELSE IF r > 5 THEN q + 1
        ELSE IF q % 2 = 0 THEN q ELSE q + 1

\* What a lookup yields: a value, or the exception it raises.
Returned(v) == [status |-> "returned", value |-> v]

Raised(e) == [status |-> "raised", value |-> e]

\* landmarks is the detector's output as a sequence (Python index i is
\* position i + 1); a YOLO landmark is x, y in tenths of a pixel and the
\* confidence, a MediaPipe landmark x, y, z in tenths of the frame.
get_landmark_coords(impl, landmarks, part_name, image_width, image_height) ==
    IF impl = "yolo"
    THEN IF part_name \notin DOMAIN YOLO_KEYPOINT_MAP
         THEN Returned(<< 0, 0 >>)
         ELSE LET index == YOLO_KEYPOINT_MAP[part_name]
              IN  IF index >= Len(landmarks)
                  THEN Returned(<< 0, 0 >>)
                  ELSE LET lm == landmarks[index + 1]
                       IN  Returned(<< py_round(lm.x), py_round(lm.y) >>)
    ELSE IF part_name \notin DOMAIN PoseLandmark
         THEN Raised("KeyError")
         ELSE LET index == PoseLandmark[part_name]
              IN  IF index >= Len(landmarks)
                  THEN Raised("IndexError")
                  ELSE LET lm == landmarks[index + 1]
                       IN  Returned(<< (lm.x * image_width) \div 10,
                                       (lm.y * image_height) \div 10 >>)

get_landmark_3d(impl, landmarks, part_name) ==
    IF impl = "yolo"
    THEN IF part_name \notin DOMAIN YOLO_KEYPOINT_MAP
         THEN Returned(<< 0, 0, 0 >>)
         ELSE LET index == YOLO_KEYPOINT_MAP[part_name]
              IN  IF index >= Len(landmarks)
                  THEN Returned(<< 0, 0, 0 >>)
                  ELSE LET lm == landmarks[index + 1]
                       IN  Returned(<< lm.x, lm.y, 0 >>)
    ELSE IF part_name \notin DOMAIN PoseLandmark
         THEN Raised("KeyError")
         ELSE LET index == PoseLandmark[part_name]
              IN  IF index >= Len(landmarks)
                  THEN Raised("IndexError")
                  ELSE LET lm == landmarks[index + 1]
                       IN  Returned(<< lm.x, lm.y, lm.z >>)

(***************************************************************************)
(* The helper functions called on their own: call holds the function, its  *)
(* arguments and, once it has been applied, what it returned.              *)
(***************************************************************************)
MaxLogCalls == 3

Implementations == {"mediapipe", "yolo"}

\* A detector's output of n landmarks for pose p.
DetectorOutput(impl, n, p) ==
    [ k \in 1..n |->
        IF impl = "yolo"
        THEN [x |-> 5 * k + 10 * p, y |-> 15 * k + 5 * p, z |-> 6]
        ELSE [x |-> (3 * k + 5 * p) % 11, y |-> (k + p) % 11, z |-> p] ]

\* The lengths of the detector's output: the full 17 (YOLO) or 33
\* (MediaPipe) landmarks, or fewer.
OutputLengths == {0, 12, 17, 33}

\* Names the rule modules look up, and one no detector knows.
PartNames ==
    { "NOSE", "LEFT_SHOULDER", "LEFT_ELBOW", "LEFT_WRIST", "LEFT_HIP", "LEFT_KNEE",
      "LEFT_ANKLE", "RIGHT_ANKLE", "LEFT_EAR", "LEFT_FOOT_INDEX", "LEFT_TOE" }

AngleCalls ==
    { [fn |-> "calculate_angle", impl |-> i, args |-> << a, b, c >>,
       done |-> FALSE, result |-> << >>] :
        i \in Implementations, a \in GridPoints, b \in GridPoints, c \in GridPoints }

LookupCalls ==
    { [fn |-> f, impl |-> i, args |-> << DetectorOutput(i, n, p), name >>,
       done |-> FALSE, result |-> << >>] :
        f \in {"get_landmark_3d", "get_landmark_coords"}, i \in Implementations,
        n \in OutputLengths, p \in {1, 2}, name \in PartNames }

PlankCalls ==
    { [fn |-> "process_plank", impl |-> "yolo",
       args |-> [hip_conf |-> hc, ankle_conf |-> ac, hip_angle |-> ha,
                 elbow_angle |-> ea, current_time |-> t,
                 total_held_duration_base |-> b, segment_start |-> s],
       done |-> FALSE, result |-> << >>] :
        hc \in Conf, ac \in Conf, ha \in {169, 170, 185, 186}, ea \in {70, 71, 130},
        t \in 2..4, b \in 0..2, s \in {PLANK_STOPPED, 1, 2} }

LogDurationCalls ==
    { [fn |-> "log_duration", impl |-> "yolo", args |-> << >>,
       done |-> FALSE, result |-> << >>] }

\* The durations handed to log_duration.
Durations == 0..3

InitHelpers ==
    /\ driver = "helper"
    /\ exercise_name = "none"
    /\ frames_read = 0
    /\ event = "start"
    /\ quorum = NoDetection
    /\ last_frame = NoFrame
    /\ SessionIdle
    /\ recorded = NoRecording
    /\ video = NoVideo /\ report = NoReport /\ speech = NoSpeech
    /\ buffers = NoBuffers
    /\ call \in AngleCalls \cup LookupCalls \cup PlankCalls \cup LogDurationCalls

\* call with the function applied and result v.
Applied(v) == [call EXCEPT !.done = TRUE, !.result = v]

CallCalculateAngle ==
    /\ driver = "helper"
    /\ call.fn = "calculate_angle"
    /\ ~call.done
    /\ call' = Applied(calculate_angle(call.impl, call.args[1], call.args[2],
                                       call.args[3]))
    /\ UNCHANGED << driver, exercise_name, frames_read, rep_count, phase, last_feedback,
                    current_frame_feedback, current_speech_text, analyzer,
                    plank_start_time, now, hip_height_history, event, quorum,
                    last_frame, held_true, trail, osc, recorded,
                    video, report, speech, buffers >>

CallGetLandmark3d ==
    /\ driver = "helper"
    /\ call.fn = "get_landmark_3d"
    /\ ~call.done
    /\ call' = Applied(get_landmark_3d(call.impl, call.args[1], call.args[2]))
    /\ UNCHANGED << driver, exercise_name, frames_read, rep_count, phase, last_feedback,
                    current_frame_feedback, current_speech_text, analyzer,
                    plank_start_time, now, hip_height_history, event, quorum,
                    last_frame, held_true, trail, osc, recorded,
                    video, report, speech, buffers >>

CallGetLandmarkCoords ==
    /\ driver = "helper"
    /\ call.fn = "get_landmark_coords"
    /\ ~call.done
    /\ call' = Applied(get_landmark_coords(call.impl, call.args[1], call.args[2],
                                           640, 480))
    /\ UNCHANGED << driver, exercise_name, frames_read, rep_count, phase, last_feedback,
                    current_frame_feedback, current_speech_text, analyzer,
                    plank_start_time, now, hip_height_history, event, quorum,
                    last_frame, held_true, trail, osc, recorded,
                    video, report, speech, buffers >>

CallProcessPlank ==
    /\ driver = "helper"
    /\ call.fn = "process_plank"
    /\ ~call.done
    /\ call' = Applied(process_plank(call.args.hip_conf, call.args.ankle_conf,
                                     call.args.hip_angle, call.args.elbow_angle,
                                     call.args.current_time,
                                     call.args.total_held_duration_base,
                                     call.args.segment_start, ""))
    /\ UNCHANGED << driver, exercise_name, frames_read, rep_count, phase, last_feedback,
                    current_frame_feedback, current_speech_text, analyzer,
                    plank_start_time, now, hip_height_history, event, quorum,
                    last_frame, held_true, trail, osc, recorded,
                    video, report, speech, buffers >>

\* One more call of the analyzer's log_duration; call.args collects the
\* durations logged so far.
CallLogDuration ==
    /\ driver = "helper"
    /\ call.fn = "log_duration"
    /\ Len(call.args) < MaxLogCalls
    /\ \E d \in Durations :
         /\ analyzer' = log_duration(analyzer, d)
         /\ call' = [call EXCEPT !.args = Append(@, d), !.done = TRUE,
                                 !.result = analyzer'.total_duration_held]
    /\ UNCHANGED << driver, exercise_name, frames_read, rep_count, phase, last_feedback,
                    current_frame_feedback, current_speech_text,
                    plank_start_time, now, hip_height_history, event, quorum,
                    last_frame, held_true, trail, osc, recorded,
                    video, report, speech, buffers >>

NextHelpers ==
    \/ CallCalculateAngle
    \/ CallGetLandmark3d
    \/ CallGetLandmarkCoords
    \/ CallProcessPlank
    \/ CallLogDuration

SpecHelpers == InitHelpers /\ [][NextHelpers]_vars


(***************************************************************************)
(* The WorkoutAnalyzer object on its own: its methods called in any order, *)
(* with the feedback texts the rule module of one exercise produces.       *)
(***************************************************************************)
MaxAnalyzerFrames == 10
MaxShortAnalyzerFrames == 3
MaxAnalyzerReps == 2

\* _get_severity, had it compared with >= in place of >.
get_severity_inclusive(a, count) ==
    IF 5 * count >= a.frame_count THEN "high"
    ELSE IF 10 * count >= a.frame_count THEN "medium"
    ELSE "low"

\* _get_severity.  Python compares count with frame_count * 0.2 and
\* frame_count * 0.1 in floating point; for every frame_count below 3000 the
\* outcome is the one of the exact comparison.
get_severity(a, count) ==
    IF 5 * count > a.frame_count THEN "high"
    ELSE IF 10 * count > a.frame_count THEN "medium"
    ELSE "low"

\* The recommendations of get_analysis_summary, which are the same four rules
\* in both main.py.
recommendations_without_fallback(a) ==
    LET When(cond, text) == IF cond THEN << text >> ELSE << >>
    IN  When(10 * a.back_issues > a.frame_count,
             "Focus on keeping chest up and maintaining neutral spine")
        \o When(10 * a.depth_issues > a.frame_count,
                "Work on mobility to achieve proper depth")
        \o When(10 * a.elbow_issues > a.frame_count,
                "Practice keeping elbows tucked to protect shoulders")
        \o When(10 * a.good_reps < 7 * a.total_reps,
                "Reduce weight and focus on perfect form")

recommendations(a) ==
    IF recommendations_without_fallback(a) = << >>
    THEN << "Great form! Keep maintaining this quality",
            "Consider progressive overload for continued gains" >>
    ELSE recommendations_without_fallback(a)

\* format_duration of plank.py for a whole number of seconds: the minutes,
\* seconds and milliseconds of "mm:ss.mmm".
format_duration(seconds) ==
    [mm |-> seconds \div 60, ss |-> seconds % 60, mmm |-> 0]

\* The None get_analysis_summary returns when it has no data.
NoSummary == [none |-> TRUE]

\* get_analysis_summary.  form_issues is the defaultdict's items, so only the
\* categories counted at least once; their order and the timestamp are left
\* out.
summary_of(impl, a, name, recs) ==
    IF a.frame_count = 0 THEN NoSummary
    ELSE LET base ==
                 [ exercise |-> name,
                   total_reps |-> a.total_reps,
                   good_reps |-> a.good_reps,
                   form_score |-> form_score(a),
                   total_frames |-> a.frame_count,
                   good_form_frames |-> a.good_form_frames,
                   bad_form_frames |-> a.bad_form_frames,
                   form_issues |->
                       { [issue |-> c, count |-> a.form_issues[c],
                          severity |-> get_severity(a, a.form_issues[c])] :
                           c \in { d \in IssueCategories : a.form_issues[d] > 0 } },
                   recommendations |-> recs,
                   rep_quality |-> << a.good_reps, a.total_reps >> ]
         IN  IF impl = "yolo" /\ name = "plank"
             THEN base @@ [total_time_held |-> format_duration(a.total_duration_held)]
             ELSE base

\* get_analysis_summary, had it returned the rules' recommendations as they are.
get_analysis_summary_no_fallback(impl, a, name) ==
    summary_of(impl, a, name, recommendations_without_fallback(a))

get_analysis_summary(impl, a, name) ==
    summary_of(impl, a, name, recommendations(a))

\* save_analysis: the report written to the file, or nothing.
save_analysis(impl, a) == get_analysis_summary(impl, a, "workout")

\* The exercises whose feedback the analyzer is fed: together their modules
\* produce a text for every issue category.
AnalyzerExercises ==
    { "pushup", "barbell_squat", "chest_press", "russian_twist", "deadlift",
      "elbow_side_plank", "plank" }

\* The analyzer is followed over ten frames and one rep when it is fed the
\* pushup module's texts, and over three frames and two reps otherwise.
AnalyzerFrameLimit(ex) ==
    IF ex = "pushup" THEN MaxAnalyzerFrames ELSE MaxShortAnalyzerFrames

AnalyzerRepLimit(ex) == IF ex = "pushup" THEN MaxAnalyzerReps - 1 ELSE MaxAnalyzerReps

\* The feedback texts the rule module of ex returns.
FeedbackTexts(ex) ==
    IF ex = "plank"
    THEN { process_plank(c.args.hip_conf, c.args.ankle_conf, c.args.hip_angle,
                         c.args.elbow_angle, c.args.current_time,
                         c.args.total_held_duration_base, c.args.segment_start,
                         "").fb : c \in PlankCalls }
    ELSE { exercise_processor(ex, f, j, 0, s, "").fb :
             f \in Frames(ex), j \in BOOLEAN, s \in Phases(ex) }

\* The analyzer after __init__.
InitAnalyzer ==
    /\ driver = "analyzer"
    /\ \E impl \in Implementations :
         /\ exercise_name \in AnalyzerExercises \cap Exercises(impl)
         /\ call = [fn |-> "__init__", impl |-> impl, args |-> << >>, done |-> TRUE,
                    result |-> << >>]
    /\ frames_read = 0
    /\ event = "start"
    /\ quorum = NoDetection
    /\ last_frame = NoFrame
    /\ SessionIdle
    /\ recorded = NoRecording
    /\ video = NoVideo /\ report = NoReport /\ speech = NoSpeech
    /\ buffers = NoBuffers

\* call after method fn was called with args and returned v.
Called(fn, args, v) == [call EXCEPT !.fn = fn, !.args = args, !.result = v]

AnalyzerLogFrame ==
    /\ driver = "analyzer"
    /\ analyzer.frame_count < AnalyzerFrameLimit(exercise_name)
    /\ \E t \in FeedbackTexts(exercise_name), g \in BOOLEAN :
         /\ analyzer' = log_frame(call.impl, analyzer, t, g)
         /\ call' = Called("log_frame", << t, g >>, << >>)
    /\ UNCHANGED << driver, exercise_name, frames_read, rep_count, phase, last_feedback,
                    current_frame_feedback, current_speech_text,
                    plank_start_time, now, hip_height_history, event, quorum,
                    last_frame, held_true, trail, osc, recorded,
                    video, report, speech, buffers >>

AnalyzerLogRep ==
    /\ driver = "analyzer"
    /\ analyzer.total_reps < AnalyzerRepLimit(exercise_name)
    /\ \E g \in BOOLEAN :
         /\ analyzer' = log_rep(analyzer, g)
         /\ call' = Called("log_rep", << g >>, << >>)
    /\ UNCHANGED << driver, exercise_name, frames_read, rep_count, phase, last_feedback,
                    current_frame_feedback, current_speech_text,
                    plank_start_time, now, hip_height_history, event, quorum,
                    last_frame, held_true, trail, osc, recorded,
                    video, report, speech, buffers >>

AnalyzerLogDuration ==
    /\ driver = "analyzer"
    /\ is_time_based(call.impl, exercise_name)
    /\ \E d \in Durations :
         /\ analyzer' = log_duration(analyzer, d)
         /\ call' = Called("log_duration", << d >>, << >>)
    /\ UNCHANGED << driver, exercise_name, frames_read, rep_count, phase, last_feedback,
                    current_frame_feedback, current_speech_text,
                    plank_start_time, now, hip_height_history, event, quorum,
                    last_frame, held_true, trail, osc, recorded,
                    video, report, speech, buffers >>

AnalyzerSummary ==
    /\ driver = "analyzer"
    /\ call' = Called("get_analysis_summary", << exercise_name >>,
                      get_analysis_summary(call.impl, analyzer, exercise_name))
    /\ UNCHANGED << driver, exercise_name, frames_read, rep_count, phase, last_feedback,
                    current_frame_feedback, current_speech_text, analyzer,
                    plank_start_time, now, hip_height_history, event, quorum,
                    last_frame, held_true, trail, osc, recorded,
                    video, report, speech, buffers >>

AnalyzerSave ==
    /\ driver = "analyzer"
    /\ call' = Called("save_analysis", << >>, save_analysis(call.impl, analyzer))
    /\ UNCHANGED << driver, exercise_name, frames_read, rep_count, phase, last_feedback,
                    current_frame_feedback, current_speech_text, analyzer,
                    plank_start_time, now, hip_height_history, event, quorum,
                    last_frame, held_true, trail, osc, recorded,
                    video, report, speech, buffers >>

NextAnalyzer ==
    \/ AnalyzerLogFrame
    \/ AnalyzerLogRep
    \/ AnalyzerLogDuration
    \/ AnalyzerSummary
    \/ AnalyzerSave

SpecAnalyzer == InitAnalyzer /\ [][NextAnalyzer]_vars


(***************************************************************************)
(* The end of a session: after the frame loop run_live_mode and            *)
(* analyze_recorded_video ask the analyzer for the summary, display it and *)
(* have save_analysis write the report.                                    *)
(***************************************************************************)
\* What display_analysis_summary prints of a summary.
display_analysis_summary(impl, summary) ==
    LET common == [ exercise |-> summary.exercise,
                    form_score |-> summary.form_score,
                    form_issues |-> summary.form_issues,
                    recommendations |-> summary.recommendations ]
        reps == [ total_reps |-> summary.total_reps,
                  good_reps |-> summary.good_reps,
                  rep_quality |-> summary.rep_quality ]
    IN  IF impl = "yolo" /\ summary.exercise = "plank"
        THEN common @@ [total_time_held |-> summary.total_time_held]
        ELSE common @@ reps

\* session_report, had it asked for a counted rep before showing the summary.
session_report_needing_reps(impl, a, ex, file, no_data_message) ==
    LET summary == get_analysis_summary(impl, a, ex)
    IN  IF summary # NoSummary /\ a.total_reps > 0
        THEN [ displayed |-> display_analysis_summary(impl, summary),
               file |-> << ex, file >>,
               saved |-> save_analysis(impl, a),
               message |-> "" ]
        ELSE [ displayed |-> NoSummary, file |-> << >>, saved |-> NoSummary,
               message |-> no_data_message ]

\* The lines after the frame loop, for analyzer a and the mode's file name and
\* message for an empty analysis.
session_report(impl, a, ex, file, no_data_message) ==
    LET summary == get_analysis_summary(impl, a, ex)
    IN  IF summary # NoSummary
        THEN [ displayed |-> display_analysis_summary(impl, summary),
               file |-> << ex, file >>,
               saved |-> save_analysis(impl, a),
               message |-> "" ]
        ELSE [ displayed |-> NoSummary, file |-> << >>, saved |-> NoSummary,
               message |-> no_data_message ]

\* The exercises whose sessions are followed to their end.
SessionExercises == {"pushup", "plank"}

InitSession == InitDrivers /\ exercise_name \in SessionExercises

\* The frame loop is still running.
Running == event # "ended"

\* The live loop is left (q pressed, or cap.read() failed).
LiveSessionEnd ==
    /\ driver \in Drivers
    /\ Running
    /\ event' = "ended"
    /\ report' = session_report(driver, analyzer, exercise_name, "live_analysis.json", "")
    /\ UNCHANGED << driver, exercise_name, frames_read, rep_count, phase, last_feedback,
                    current_frame_feedback, current_speech_text, analyzer,
                    plank_start_time, now, hip_height_history, quorum, last_frame,
                    held_true, trail, osc, recorded, call, video, speech, buffers >>

\* cap.read() returns no further frame of the video.
RecordedSessionEnd ==
    /\ driver \in RecordedDrivers
    /\ Running
    /\ event' = "ended"
    /\ report' = session_report(pose_engine(driver), recorded.analyzer, exercise_name,
                                "recorded_analysis.json",
                                "No valid data collected. Check video quality and framing.")
    /\ UNCHANGED << driver, exercise_name, frames_read, rep_count, phase, last_feedback,
                    current_frame_feedback, current_speech_text, analyzer,
                    plank_start_time, now, hip_height_history, quorum, last_frame,
                    held_true, trail, osc, recorded, call, video, speech, buffers >>

SessionFrame == Running /\ NextDrivers

NextSession ==
    \/ SessionFrame
    \/ LiveSessionEnd
    \/ RecordedSessionEnd

SpecSession == InitSession /\ [][NextSession]_vars


(***************************************************************************)
(* The speech paths.  speak_feedback of the two main.py is called once a   *)
(* frame with the frame's speech text; posture_corrector.py's              *)
(* process_pushup smooths its angles over module-level buffers and calls   *)
(* announce_feedback for every feedback it sets.  speech holds the globals *)
(* of the path and spoken, the texts handed to the speech engine with the  *)
(* time of each.                                                           *)
(***************************************************************************)
MaxSpeechCalls == 4
MaxCorrectorFrames == 5
MaxPushupCorrectorFrames == 3

SPEECH_COOLDOWN == 2

ANNOUNCEMENT_COOLDOWN == 3

\* speak_feedback of main.py at time t.
speak_feedback(sp, text, t) ==
    IF t - sp.last_time > SPEECH_COOLDOWN /\ text # ""
    THEN [sp EXCEPT !.last_time = t,
                    !.spoken = Append(@, [at |-> t, text |-> text])]
    ELSE sp

\* announce_feedback of posture_corrector.py at time t, force left False.
\* speak_async starts one thread per announcement: spoken lists the threads
\* started, finished counts those whose speak() has returned.
announce_feedback(sp, feedback_text, t) ==
    IF feedback_text # sp.last_text \/ t - sp.last_time >= ANNOUNCEMENT_COOLDOWN
    THEN [sp EXCEPT !.last_time = t,
                    !.last_text = feedback_text,
                    !.spoken = Append(@, [at |-> t, text |-> feedback_text])]
    ELSE sp

\* buffer.append(angle) on a deque(maxlen=5).
smooth_append(buffer, angle) ==
    LET b == Append(buffer, angle)
    IN  IF Len(b) > 5 THEN Tail(b) ELSE b

RECURSIVE SumOf(_)
SumOf(s) == IF s = << >> THEN 0 ELSE Head(s) + SumOf(Tail(s))

\* process_pushup of posture_corrector.py.  np.mean(buffer) is compared with
\* a threshold T as SumOf(buffer) with T * Len(buffer).
corrector_process_pushup(bufs, sp, t, visible, elbow_angle_raw, back_angle_raw, rep_counter, exercise_state, feedback_text) ==
    IF ~visible
    THEN [ rep |-> rep_counter, state |-> exercise_state,
           fb |-> "Adjust camera - can't see full body", buffers |-> bufs, speech |-> sp ]
    ELSE LET eb == smooth_append(bufs.elbow, elbow_angle_raw)
             bb == smooth_append(bufs.back, back_angle_raw)
             elbow_below_90 == SumOf(eb) < 90 * Len(eb)
             elbow_above_160 == SumOf(eb) > 160 * Len(eb)
             back_below_160 == SumOf(bb) < 160 * Len(bb)
             back_above_160 == SumOf(bb) > 160 * Len(bb)
             fb1 == IF back_below_160 THEN "Keep your back straight!" ELSE "Good back form!"
             sp1 == announce_feedback(sp, fb1, t)
             Out(r, s, f, said) ==
                 [ rep |-> r, state |-> s, fb |-> f,
                   buffers |-> [elbow |-> eb, back |-> bb],
                   speech |-> IF said THEN announce_feedback(sp1, f, t) ELSE sp1 ]
         IN  IF elbow_below_90 /\ back_above_160
             THEN Out(rep_counter, "down", "Lower!", TRUE)
             ELSE IF elbow_above_160 /\ exercise_state = "down"
             THEN Out(rep_counter + 1, "up", "Rep Complete!", TRUE)
             ELSE IF elbow_above_160 /\ exercise_state = "up"
             THEN Out(rep_counter, exercise_state, "Ready to lower!", TRUE)
             ELSE IF ~Contains("back", fb1)
             THEN Out(rep_counter, exercise_state, "Push up or lower!", TRUE)
             ELSE Out(rep_counter, exercise_state, fb1, FALSE)

\* process_bicep_curl of posture_corrector.py, the function the script's
\* current_exercise selects.
corrector_process_bicep_curl(bufs, sp, t, visible, elbow_angle_raw, rep_counter, exercise_state, feedback_text) ==
    IF ~visible
    THEN [ rep |-> rep_counter, state |-> exercise_state,
           fb |-> "Can't see your arm - adjust camera", buffers |-> bufs, speech |-> sp ]
    ELSE LET eb == smooth_append(bufs.elbow, elbow_angle_raw)
             elbow_below_50 == SumOf(eb) < 50 * Len(eb)
             elbow_above_50 == SumOf(eb) > 50 * Len(eb)
             elbow_below_140 == SumOf(eb) < 140 * Len(eb)
             elbow_above_140 == SumOf(eb) > 140 * Len(eb)
             Out(r, s, f, said) ==
                 [ rep |-> r, state |-> s, fb |-> f,
                   buffers |-> [bufs EXCEPT !.elbow = eb],
                   speech |-> IF said THEN announce_feedback(sp, f, t) ELSE sp ]
         IN  IF elbow_below_50
             THEN Out(rep_counter, "curled", "Good curl!", TRUE)
             ELSE IF elbow_above_140 /\ exercise_state = "curled"
             THEN Out(rep_counter + 1, "extended", "Rep complete!", TRUE)
             ELSE IF elbow_above_140 /\ exercise_state = "extended"
             THEN Out(rep_counter, exercise_state, "Curl your arm!", TRUE)
             ELSE IF elbow_below_140 /\ elbow_above_50
             THEN Out(rep_counter, exercise_state, "Keep going...", FALSE)
             ELSE Out(rep_counter, exercise_state, feedback_text, FALSE)

\* The exercise-specific switch of posture_corrector.py's loop.
corrector_process(current_exercise, bufs, sp, t, f, rep_counter, exercise_state, feedback_text) ==
    IF current_exercise = "pushup"
    THEN corrector_process_pushup(bufs, sp, t, f.visible, f.elbow, f.back,
                                  rep_counter, exercise_state, feedback_text)
    ELSE corrector_process_bicep_curl(bufs, sp, t, f.visible, f.elbow,
                                      rep_counter, exercise_state, feedback_text)

\* The two exercises of posture_corrector.py that have rules: bicep_curl,
\* the value current_exercise is set to, and pushup.
CorrectorExercises == { "bicep_curl", "pushup" }

\* What a frame gives the function: whether the keypoints it reads have
\* confidence, and the raw angles (process_bicep_curl reads no back angle).
CorrectorFrames(current_exercise) ==
    IF current_exercise = "pushup"
    THEN { [visible |-> v, elbow |-> e, back |-> b] :
             v \in BOOLEAN, e \in {89, 125, 161}, b \in {159, 161} }
    ELSE { [visible |-> v, elbow |-> e, back |-> 0] :
             v \in BOOLEAN, e \in {30, 95, 179} }

CorrectorFrameLimit(current_exercise) ==
    IF current_exercise = "pushup" THEN MaxPushupCorrectorFrames ELSE MaxCorrectorFrames

\* The speech texts main.py's frames hand to speak_feedback.
SpeechTexts == { "", "Hips up!", "Timer running." }

\* posture_corrector.py after its globals are set.
InitCorrector ==
    /\ driver = "posture_corrector"
    /\ exercise_name \in CorrectorExercises
    /\ frames_read = 0
    /\ event = "start"
    /\ quorum = NoDetection
    /\ last_frame = NoFrame
    /\ SessionIdle
    /\ recorded = NoRecording
    /\ call = NoCall
    /\ video = NoVideo /\ report = NoReport
    /\ speech = [last_time |-> 0, last_text |-> "", spoken |-> << >>, finished |-> 0]
    /\ buffers = [elbow |-> << >>, back |-> << >>]

\* main.py after import: last_speech_time = time.time().
InitSpeak ==
    /\ driver \in Drivers
    /\ exercise_name = "plank"
    /\ frames_read = 0
    /\ event = "start"
    /\ quorum = NoDetection
    /\ last_frame = NoFrame
    /\ SessionIdle
    /\ recorded = NoRecording
    /\ call = NoCall
    /\ video = NoVideo /\ report = NoReport
    /\ speech = [last_time |-> now, last_text |-> "", spoken |-> << >>]
    /\ buffers = NoBuffers

\* One iteration of posture_corrector.py's loop in which a person is found.
CorrectorFrame ==
    /\ driver = "posture_corrector"
    /\ frames_read < CorrectorFrameLimit(exercise_name)
    /\ \E f \in CorrectorFrames(exercise_name), dt \in 0..MaxTick :
         LET r == corrector_process(exercise_name, buffers, speech, now + dt, f,
                                    rep_count, phase, last_feedback)
         IN  /\ now' = now + dt
             /\ rep_count' = r.rep
             /\ phase' = r.state
             /\ last_feedback' = r.fb
             /\ current_frame_feedback' = r.fb
             /\ buffers' = r.buffers
             /\ speech' = r.speech
             /\ last_frame' = [a |-> f.elbow, b |-> f.back, c |-> IF f.visible THEN 1 ELSE 0]
    /\ frames_read' = frames_read + 1
    /\ event' = "processed"
    /\ UNCHANGED << driver, exercise_name, current_speech_text, analyzer, plank_start_time,
                    hip_height_history, quorum, held_true, trail, osc, recorded, call,
                    video, report >>

\* speak_feedback(current_speech_text) at the end of a frame of run_live_mode.
SpeakFeedback ==
    /\ driver \in Drivers
    /\ speech # NoSpeech
    /\ frames_read < MaxSpeechCalls
    /\ \E text \in SpeechTexts, dt \in 0..MaxTick :
         /\ now' = now + dt
         /\ current_speech_text' = text
         /\ speech' = speak_feedback(speech, text, now + dt)
    /\ frames_read' = frames_read + 1
    /\ event' = "processed"
    /\ UNCHANGED << driver, exercise_name, rep_count, phase, last_feedback,
                    current_frame_feedback, analyzer, plank_start_time,
                    hip_height_history, quorum, last_frame, held_true, trail, osc,
                    recorded, call, video, report, buffers >>

\* The speak() of one of the threads speak_async started returns: say and
\* runAndWait on the shared tts_engine are over for that thread.
SpeakReturns ==
    /\ driver = "posture_corrector"
    /\ speech.finished < Len(speech.spoken)
    /\ speech' = [speech EXCEPT !.finished = @ + 1]
    /\ UNCHANGED << driver, exercise_name, frames_read, rep_count, phase, last_feedback,
                    current_frame_feedback, current_speech_text, analyzer,
                    plank_start_time, now, hip_height_history, event, quorum,
                    last_frame, held_true, trail, osc, recorded, call,
                    video, report, buffers >>

InitSpeech == InitCorrector \/ InitSpeak

NextSpeech ==
    \/ CorrectorFrame
    \/ SpeakReturns
    \/ SpeakFeedback

SpecSpeech == InitSpeech /\ [][NextSpeech]_vars


(***************************************************************************)
(* analyze_recorded_video from the opening of the source to its return.    *)
(* video holds what cv2.VideoCapture reports for the source (whether it    *)
(* opened, CAP_PROP_FRAME_COUNT, CAP_PROP_FPS), the number of frames       *)
(* cap.read() delivers, frame_num, and the stage the function is at:       *)
(* "created", "loop", "ended" (the lines after the loop ran), "returned"   *)
(* (the early return) or "raised" (an exception left the function).        *)
(***************************************************************************)
MaxSourceFrames == 30
MaxPersonFrames == 2

PROGRESS_EVERY == 30

\* The sources: one that does not open, and sources of 0, 1 and
\* MaxSourceFrames readable frames whose container reports the frame count
\* and the frame rate, or 0 for either.
VideoSources ==
    { [stage |-> "created", opened |-> FALSE, total_frames |-> 0, fps |-> 0,
       frames |-> 0, frame_num |-> 0] }
    \cup
    { [stage |-> "created", opened |-> TRUE, total_frames |-> t, fps |-> r,
       frames |-> n, frame_num |-> 0] :
        n \in {0, 1, MaxSourceFrames}, t \in {0, MaxSourceFrames}, r \in {0, 30} }

\* The exercises followed through the video.
VideoExercises == {"pushup", "plank"}

\* analyze_recorded_video after cv2.VideoCapture(video_path).
InitVideo ==
    /\ driver \in RecordedDrivers
    /\ exercise_name \in VideoExercises
    /\ frames_read = 0
    /\ event = "start"
    /\ quorum = NoDetection
    /\ last_frame = NoFrame
    /\ SessionIdle
    /\ recorded = recording_start(pose_engine(driver))
    /\ video \in VideoSources
    /\ report = NoReport /\ speech = NoSpeech
    /\ buffers = NoBuffers
    /\ call = NoCall

\* cap.isOpened() is false: the error is printed and the function returns.
VideoNotOpened ==
    /\ video # NoVideo
    /\ video.stage = "created"
    /\ ~video.opened
    /\ video' = [video EXCEPT !.stage = "returned"]
    /\ report' = [ displayed |-> NoSummary, file |-> << >>, saved |-> NoSummary,
                   message |-> "Error: Could not open video file" ]
    /\ event' = "returned"
    /\ UNCHANGED << driver, exercise_name, frames_read, rep_count, phase, last_feedback,
                    current_frame_feedback, current_speech_text, analyzer,
                    plank_start_time, now, hip_height_history, quorum, last_frame,
                    held_true, trail, osc, recorded, call, speech, buffers >>

\* The source opened: total_frames and fps are read; the YOLO driver then
\* computes frame_time_step = 1.0 / fps, which raises ZeroDivisionError for
\* fps 0.
VideoInfo ==
    /\ video # NoVideo
    /\ video.stage = "created"
    /\ video.opened
    /\ video' = [video EXCEPT !.stage =
                    IF pose_engine(driver) = "yolo" /\ video.fps = 0
                    THEN "raised" ELSE "loop"]
    /\ event' = IF pose_engine(driver) = "yolo" /\ video.fps = 0
                THEN "ZeroDivisionError" ELSE event
    /\ UNCHANGED << driver, exercise_name, frames_read, rep_count, phase, last_feedback,
                    current_frame_feedback, current_speech_text, analyzer,
                    plank_start_time, now, hip_height_history, quorum, last_frame,
                    held_true, trail, osc, recorded, call, report, speech, buffers >>

\* cap.read() delivered a frame: frame_num is incremented and the progress
\* line of every PROGRESS_EVERY-th frame is evaluated.
FrameRead ==
    /\ video # NoVideo
    /\ video.stage = "loop"
    /\ video.frame_num < video.frames

\* int(frame_num / total_frames * 100) of the progress line raises.
ProgressRaises ==
    /\ (video.frame_num + 1) % PROGRESS_EVERY = 0
    /\ video.total_frames = 0

VideoProgressRaised ==
    /\ FrameRead
    /\ ProgressRaises
    /\ video' = [video EXCEPT !.frame_num = @ + 1, !.stage = "raised"]
    /\ event' = "ZeroDivisionError"
    /\ UNCHANGED << driver, exercise_name, frames_read, rep_count, phase, last_feedback,
                    current_frame_feedback, current_speech_text, analyzer,
                    plank_start_time, now, hip_height_history, quorum, last_frame,
                    held_true, trail, osc, recorded, call, report, speech, buffers >>

\* A frame in which a pose is found and the rule module returns.
VideoFrameProcessed ==
    /\ FrameRead
    /\ ~ProgressRaises
    /\ frames_read < MaxPersonFrames
    /\ video' = [video EXCEPT !.frame_num = @ + 1]
    /\ \E q \in { d \in VideoDetections(pose_engine(driver), exercise_name) : d.detected } :
         /\ recorded' \in { analyze_frame(pose_engine(driver), exercise_name, recorded, q, f) :
                               f \in Frames(exercise_name) }
         /\ quorum' = q
    /\ frames_read' = frames_read + 1
    /\ event' = "processed"
    /\ UNCHANGED << driver, exercise_name, rep_count, phase, last_feedback,
                    current_frame_feedback, current_speech_text, analyzer,
                    plank_start_time, now, hip_height_history, last_frame, held_true, trail,
                    osc, call, report, speech, buffers >>

\* A frame in which no pose is found, or on which the try block raises and
\* the bare except clause passes.
VideoFrameSkipped ==
    /\ FrameRead
    /\ ~ProgressRaises
    /\ video' = [video EXCEPT !.frame_num = @ + 1]
    /\ event' = "lost"
    /\ UNCHANGED << driver, exercise_name, frames_read, rep_count, phase, last_feedback,
                    current_frame_feedback, current_speech_text, analyzer,
                    plank_start_time, now, hip_height_history, quorum, last_frame,
                    held_true, trail, osc, recorded, call, report, speech, buffers >>

\* cap.read() returns no frame: break, and the lines after the loop.
VideoExhausted ==
    /\ video # NoVideo
    /\ video.stage = "loop"
    /\ video.frame_num = video.frames
    /\ video' = [video EXCEPT !.stage = "ended"]
    /\ event' = "ended"
    /\ report' = session_report(pose_engine(driver), recorded.analyzer, exercise_name,
                                "recorded_analysis.json",
                                "No valid data collected. Check video quality and framing.")
    /\ UNCHANGED << driver, exercise_name, frames_read, rep_count, phase, last_feedback,
                    current_frame_feedback, current_speech_text, analyzer,
                    plank_start_time, now, hip_height_history, quorum, last_frame,
                    held_true, trail, osc, recorded, call, speech, buffers >>

NextVideo ==
    \/ VideoNotOpened
    \/ VideoInfo
    \/ VideoProgressRaised
    \/ VideoFrameProcessed
    \/ VideoFrameSkipped
    \/ VideoExhausted

SpecVideo == InitVideo /\ [][NextVideo]_vars

\* analyze_recorded_video runs on: no step waits for anything but the
\* function's own progress.
SpecVideoFair == SpecVideo /\ WF_vars(NextVideo)


(***************************************************************************)
(* Properties of the live sessions and of the rule modules.                *)
(***************************************************************************)
RepBasedSession == driver \in Drivers /\ ~is_time_based(driver, exercise_name)

PlankSession == driver \in Drivers /\ is_time_based(driver, exercise_name)

\* C1: in a live rep-based session rep_count starts at 0 and every frame,
\* whether it passes the quorum, fails it or makes the rule module raise,
\* leaves rep_count alone or adds exactly 1; it adds 1 only in a frame the rule
\* module handled and in which the phase it returned differs from the phase
\* it was passed.
C1_RepCountStepsByOne ==
    /\ rep_count = 0
    /\ [][ RepBasedSession =>
             \/ rep_count' = rep_count
             \/ /\ rep_count' = rep_count + 1
                /\ event' = "processed"
                /\ phase' # phase ]_vars

\* A session in which two reps were counted and the analyzer logged both.
C1_Witness ==
    /\ RepBasedSession
    /\ event = "processed"
    /\ rep_count = 2
    /\ analyzer.total_reps = 2

\* The primary-metric threshold below which a three-phase module takes the
\* bottom of the movement as reached.
BottomThreshold(ex) ==
    CASE ex = "air_squat" -> 95
      [] ex = "good_mornings" -> 70
      [] ex = "shoulder_press" -> 130

\* C2: in a three-phase module, a call made in phase recovering returns phase
\* recovering or up, never down; and if the frame's primary metric is below
\* the bottom threshold it returns recovering with rep_count unchanged.
C2_RecoveringNeverReentersDown ==
    [][ (driver = "none" /\ exercise_name \in ThreePhaseExercises /\ phase = "recovering") =>
           /\ phase' \in {"recovering", "up"}
           /\ last_frame'.a < BottomThreshold(exercise_name) =>
                 (phase' = "recovering" /\ rep_count' = rep_count) ]_vars

\* A module called in phase recovering on a frame back below the bottom
\* threshold, which left it in recovering.
C2_Witness ==
    /\ driver = "none"
    /\ exercise_name \in ThreePhaseExercises
    /\ frames_read = 1
    /\ trail = << "recovering" >>
    /\ last_frame.a < BottomThreshold(exercise_name)
    /\ phase = "recovering"
    /\ rep_count = 0

\* The frame just handled showed nobody, or an anchor of the quorum with a
\* confidence not above 0.5.
QuorumFailed(q) == ~q.detected \/ \E j \in DOMAIN q.vis : q.vis[j] <= 5

\* C3: in a rep-based live session of either driver, a frame without a subject
\* and a frame with an anchor confidence not above 0.5 are handled alike: the
\* rule module is not invoked, phase becomes "up", rep_count, the carried
\* feedback and the analyzer stay as they were, and the frame's feedback is
\* the one reacquire-pose string.
C3_QuorumFailureHandledAlike ==
    [][ (RepBasedSession /\ QuorumFailed(quorum')) =>
           /\ event' = "lost"
           /\ phase' = "up"
           /\ rep_count' = rep_count
           /\ last_feedback' = last_feedback
           /\ analyzer' = analyzer
           /\ current_frame_feedback' = "CENTER AND SHOW ENTIRE BODY" ]_vars

\* C4: the first frame that passes the quorum after a frame that failed it
\* never increments rep_count.
C4_NoRepRightAfterGap ==
    [][ (RepBasedSession /\ event = "lost" /\ event' = "processed") =>
           rep_count' = rep_count ]_vars

\* C5: after every frame of a live plank session that is processed or lost,
\* the total shown and logged is the summed length of the completed segments
\* plus the time the running segment has lasted.
C5_PlankTotalIsSegmentsPlusRunning ==
    (PlankSession /\ event \in {"processed", "lost"}) =>
        LET total == held_true + (IF plank_start_time # PLANK_STOPPED
                                  THEN now - plank_start_time ELSE 0)
        IN  rep_count = total /\ analyzer.total_duration_held = total


\* A plank frame in which process_plank cannot see the form or finds it broken.
BadPlankFrame(f, q) ==
    \/ ~(f.c > 5 /\ q.vis["LEFT_ANKLE"] > 5)
    \/ f.a < 170 \/ f.a > 185
    \/ (f.b < 130 /\ ~(70 < f.b /\ f.b < 120))

\* C6: while the plank timer is paused, a further pause event (a frame that
\* fails the quorum, or a frame process_plank handles and finds undetectable or
\* in bad form) leaves the accumulated duration as it was and the timer paused.
C6_PauseIsIdempotent ==
    [][ ( /\ PlankSession
          /\ plank_start_time = PLANK_STOPPED
          /\ \/ event' = "lost"
             \/ event' = "processed" /\ BadPlankFrame(last_frame', quorum') ) =>
           /\ rep_count' = rep_count
           /\ plank_start_time' = PLANK_STOPPED ]_vars

\* A paused timer with time on it that saw a bad-form frame and then a frame
\* that failed the quorum.
C6_Witness ==
    /\ PlankSession
    /\ plank_start_time = PLANK_STOPPED
    /\ rep_count > 0
    /\ last_feedback = "FORM BREAK: PAUSED. Total held: mm:ss.mmm"
    /\ event = "lost"

\* The message of the back/torso check of a module for frame f, "" if the
\* check passes.
SafetyFeedback(ex, f) ==
    CASE ex = "pushup" /\ f.b < 160 -> "Keep your back straight!"
      [] ex = "barbell_squat" /\ f.b < 80 -> "Chest up! Keep your back straight."
      [] ex = "air_squat" /\ ~(f.b > 100) -> "Too much forward lean! Chest up."
      [] OTHER -> ""

\* C7: when the back/torso check of the frame a module was called on fails,
\* the feedback the module returns is that check's message.
C7_SafetyFeedbackWins ==
    (driver = "none" /\ event = "processed"
        /\ SafetyFeedback(exercise_name, last_frame) # "") =>
        last_feedback = SafetyFeedback(exercise_name, last_frame)

\* The primary-metric threshold whose crossing starts the descent, and the
\* form gate of a three-phase module.
StartThreshold(ex) ==
    CASE ex = "air_squat" -> 160
      [] ex = "good_mornings" -> 158
      [] ex = "shoulder_press" -> 145

FormGatePasses(ex, f) ==
    CASE ex = "air_squat" -> f.b > 100
      [] ex = "good_mornings" -> 160 <= f.b /\ f.b <= 178
      [] ex = "shoulder_press" -> TRUE

\* C8: a three-phase module called in phase up on a frame whose primary metric
\* is past the starting threshold and whose form gate passes returns phase
\* down.
C8_UpToDownPastStart ==
    [][ ( /\ driver = "none"
          /\ exercise_name \in ThreePhaseExercises
          /\ phase = "up"
          /\ last_frame'.a < StartThreshold(exercise_name)
          /\ FormGatePasses(exercise_name, last_frame') ) =>
           phase' = "down" ]_vars

\* tr holds "down" and, later, "recovering".
DownThenRecovering(tr) ==
    \E i, j \in 1..Len(tr) : i < j /\ tr[i] = "down" /\ tr[j] = "recovering"

\* C9: with a three-phase module, in a live session as well as called on its
\* own from any phase, rep_count changes in a frame exactly if the module
\* handled the frame in phase recovering and returned phase up; and whenever
\* it changes in a live session, the phases held since the last counted rep
\* (or since the session started) include down and, after it, recovering.
C9_RepOnlyOnRecoveringToUp ==
    [][ (exercise_name \in ThreePhaseExercises) =>
           /\ (rep_count' # rep_count) <=>
                 (event' = "processed" /\ phase = "recovering" /\ phase' = "up")
           /\ (RepBasedSession /\ rep_count' # rep_count) => DownThenRecovering(trail)
      ]_vars

\* A three-phase session with two counted reps.
C9_Witness ==
    /\ RepBasedSession
    /\ exercise_name \in ThreePhaseExercises
    /\ rep_count = 2
    /\ trail = << "up" >>

\* C10: while the primary metric alternates between one below and one above a
\* single threshold of the module, the other metrics constant, at most one rep
\* is counted.
C10_OscillationCountsAtMostOnce ==
    driver = "osc" => rep_count <= 1

\* An oscillation of full length during which a rep was counted.
C10_Witness ==
    /\ driver = "osc"
    /\ frames_read = MaxOscFrames
    /\ rep_count = 1


\* Every phase of the exercise's graph occurs in the trail tr.
AllPhasesVisited(tr) ==
    \A p \in Phases(exercise_name) : \E i \in 1..Len(tr) : tr[i] = p

\* C11: in a live rep-based session started from rep_count 0 and phase up,
\* the frame that makes rep_count 1 is not the first frame of the session,
\* returns to phase up, and follows a visit of every phase of the module's
\* graph since the start.
C11_FirstRepIsFullCycle ==
    [][ (RepBasedSession /\ rep_count = 0 /\ rep_count' = 1) =>
           /\ frames_read > 0
           /\ phase' = "up"
           /\ AllPhasesVisited(trail)
      ]_vars


\* C12: when run_live_mode and analyze_recorded_video of the same driver are
\* fed the same frames, all passing the live quorum, then after every frame
\* the recorded analysis passes on the phase the rule module just returned,
\* and its rep_count and its number of logged reps equal the live session's.
C12_RecordedThreadsStateAsLive ==
    /\ frames_read > 0 => recorded.exercise_state = recorded.returned_state
    /\ recorded.rep_counter = rep_count
    /\ recorded.analyzer.total_reps = analyzer.total_reps


\* The frame just handled failed the anchor-joint quorum of the driver.
VideoQuorumFailed(q) ==
    ~is_visible(pose_engine(driver), exercise_name, q)

\* C13: in recorded-video analysis a frame whose anchor-joint quorum fails
\* (no pose, or an anchor with confidence not above 0.5) leaves rep_count
\* and every counter of the analyzer as they were.
C13_RecordedSkipsFailedQuorum ==
    [][ (driver \in RecordedDrivers /\ VideoQuorumFailed(quorum')) =>
           /\ recorded'.rep_counter = recorded.rep_counter
           /\ recorded'.analyzer = recorded.analyzer
      ]_vars


\* The frames the model follows the running driver for.
LoopLimit ==
    IF driver \in RecordedDrivers THEN MaxVideoFrames ELSE FrameLimit(exercise_name)

\* C14: in the live and in the recorded driver a frame on which the rule
\* module raises leaves rep_count, the phase and every counter of the
\* analyzer as they were, in live mode the feedback shown for it is
\* "Error processing pose data.", and the loop goes on to the next frame.
C14_RaisedFrameLeavesState ==
    /\ [][ event' = "raised" =>
             /\ rep_count' = rep_count
             /\ phase' = phase
             /\ analyzer' = analyzer
             /\ (driver \in RecordedDrivers) =>
                   /\ recorded'.rep_counter = recorded.rep_counter
                   /\ recorded'.exercise_state = recorded.exercise_state
                   /\ recorded'.analyzer = recorded.analyzer
             /\ (driver \in Drivers) =>
                   current_frame_feedback' = "Error processing pose data."
         ]_vars
    /\ []( (event = "raised" /\ frames_read < LoopLimit) => ENABLED NextDrivers )

\* A frame raised after reps were counted and frames logged, in a live
\* session or in a recorded analysis.
C14_Witness ==
    /\ event = "raised"
    /\ \/ driver \in Drivers /\ rep_count > 0 /\ phase = "down"
          /\ analyzer.frame_count > 0
       \/ driver \in RecordedDrivers /\ recorded.rep_counter > 0
          /\ recorded.exercise_state = "down" /\ recorded.analyzer.frame_count > 0


\* C15: a processed frame of a live rep-based session in which a joint the
\* rule module reads has confidence below 0.5, while the anchor quorum
\* passes, leaves rep_count and the phase as they were.
C15_LowConfidenceJointIsIndeterminate ==
    [][ ( /\ RepBasedSession
          /\ event' = "processed"
          /\ quorum'.vis[ReadJoint(driver, exercise_name)] < 5 ) =>
           /\ rep_count' = rep_count
           /\ phase' = phase
      ]_vars


\* The vertex of the angle call cl coincides with one of the other points.
ZeroLengthSegment(cl) == cl.args[2] = cl.args[1] \/ cl.args[2] = cl.args[3]

\* C16: calculate_angle of either utils module, called with the vertex b
\* equal to a or to c, returns 0 degrees.
C16_DegenerateAngleIsZero ==
    (call.fn = "calculate_angle" /\ call.done /\ ZeroLengthSegment(call)) =>
        call.result = 0

\* The name of the lookup call cl is not a name of the implementation's
\* detector, or its index lies beyond the detector's output.
Unresolvable(cl) ==
    LET indices == IF cl.impl = "yolo" THEN YOLO_KEYPOINT_MAP ELSE PoseLandmark
    IN  \/ cl.args[2] \notin DOMAIN indices
        \/ indices[cl.args[2]] >= Len(cl.args[1])

\* C17: get_landmark_3d and get_landmark_coords of either utils module,
\* called with an unrecognized name or with a name whose index lies beyond
\* the detector's output, return the sentinel position and do not raise.
C17_LookupFailsSafely ==
    ( /\ call.fn \in {"get_landmark_3d", "get_landmark_coords"}
      /\ call.done
      /\ Unresolvable(call) ) =>
        /\ call.result.status = "returned"
        /\ call.result.value = IF call.fn = "get_landmark_3d"
                               THEN << 0, 0, 0 >> ELSE << 0, 0 >>

\* The plank frame of the call cl is undetectable or violates the form.
BadPlankCall(cl) ==
    BadPlankFrame([a |-> cl.args.hip_angle, b |-> cl.args.elbow_angle,
                   c |-> cl.args.hip_conf],
                  [detected |-> TRUE, vis |-> [LEFT_ANKLE |-> cl.args.ankle_conf]])

\* C18: process_plank called while the timer runs (segment_start is not
\* PLANK_STOPPED) at time t returns, for an undetectable pose or a form
\* violation, the base plus t - segment_start and PLANK_STOPPED, and for
\* valid form the base and segment_start it was given.
C18_PlankTotalSameRunningOrPaused ==
    ( /\ call.fn = "process_plank"
      /\ call.done
      /\ call.args.segment_start # PLANK_STOPPED ) =>
        IF BadPlankCall(call)
        THEN /\ call.result.base = call.args.total_held_duration_base
                                   + (call.args.current_time - call.args.segment_start)
             /\ call.result.start = PLANK_STOPPED
        ELSE /\ call.result.base = call.args.total_held_duration_base
             /\ call.result.start = call.args.segment_start

\* process_plank has paused a timer that ran for a while on top of an
\* earlier total, and has in another call kept a running timer.
C18_Witness ==
    /\ call.fn = "process_plank"
    /\ call.done
    /\ call.args.segment_start # PLANK_STOPPED
    /\ call.args.current_time > call.args.segment_start
    /\ call.args.total_held_duration_base > 0
    /\ BadPlankCall(call)
    /\ call.result.start = PLANK_STOPPED

\* The largest of the durations in the sequence logged, 0 if there is none.
MaxLogged(logged) ==
    LET values == {0} \cup { logged[i] : i \in 1..Len(logged) }
    IN  CHOOSE m \in values : \A v \in values : m >= v

\* C19: over any sequence of log_duration calls total_duration_held never
\* decreases and after each call is the maximum of 0 and the durations
\* logged so far.
C19_DurationIsRunningMaximum ==
    /\ [][ (call.fn = "log_duration") =>
              analyzer'.total_duration_held >= analyzer.total_duration_held ]_vars
    /\ []( (call.fn = "log_duration") =>
              analyzer.total_duration_held = MaxLogged(call.args) )

\* A duration smaller than one logged before it has just been logged.
C19_Witness ==
    /\ call.fn = "log_duration"
    /\ Len(call.args) >= 2
    /\ call.args[Len(call.args)] < call.args[Len(call.args) - 1]
    /\ call.args[Len(call.args)] > 0
    /\ analyzer.total_duration_held = call.args[Len(call.args) - 1]


\* C20: whenever frames have been logged, form_score is the integer nearest
\* to 100 * good_form_frames / frame_count.
C20_FormScoreIsRounded ==
    (driver \in Drivers /\ analyzer.frame_count > 0) =>
        LET exact100 == 100 * analyzer.good_form_frames
            shown == form_score(analyzer) * analyzer.frame_count
            off == IF exact100 >= shown THEN exact100 - shown ELSE shown - exact100
        IN  2 * off <= analyzer.frame_count


(***************************************************************************)
(* Properties of the WorkoutAnalyzer and of the summary.                   *)
(***************************************************************************)
\* The summary get_analysis_summary has just returned.
SummaryReturned == driver = "analyzer" /\ call.fn = "get_analysis_summary"

\* C21: in the summary every listed issue carries the count the analyzer
\* holds, and its severity is high iff the count is more than 20% of
\* frame_count, medium iff it is more than 10% and at most 20%, and low
\* otherwise.
C21_SeverityBands ==
    (SummaryReturned /\ call.result # NoSummary) =>
        \A e \in call.result.form_issues :
            /\ e.count = analyzer.form_issues[e.issue]
            /\ e.severity \in {"high", "medium", "low"}
            /\ (e.severity = "high") <=> (5 * e.count > analyzer.frame_count)
            /\ (e.severity = "medium") <=>
                   (10 * e.count > analyzer.frame_count
                    /\ 5 * e.count <= analyzer.frame_count)

\* A summary that lists an issue counted on exactly 10% of the frames, as low.
C21_Witness ==
    /\ SummaryReturned
    /\ call.result # NoSummary
    /\ \E e \in call.result.form_issues :
         10 * e.count = analyzer.frame_count /\ e.severity = "low"


\* The recommendations whose rule reads the counter of category c.
TriggeredBy(c) ==
    CASE c = "Back not straight" ->
            { "Focus on keeping chest up and maintaining neutral spine" }
      [] c = "Insufficient depth" -> { "Work on mobility to achieve proper depth" }
      [] c = "Elbow positioning" ->
            { "Practice keeping elbows tucked to protect shoulders" }
      [] OTHER -> { }

\* C22: whenever the count of an issue category the analyzer tracks exceeds
\* 10% of frame_count, the summary contains a recommendation triggered by
\* that category.
C22_EveryCategoryHasRecommendation ==
    (SummaryReturned /\ call.result # NoSummary) =>
        \A c \in IssueCategories :
            (10 * analyzer.form_issues[c] > analyzer.frame_count) =>
                \E i \in DOMAIN call.result.recommendations :
                    call.result.recommendations[i] \in TriggeredBy(c)


\* No rule of the summary triggers: no rule-bearing counter is above 10% of
\* frame_count and at least 70% of the reps are good.
NoRuleTriggers(a) ==
    /\ 10 * a.back_issues <= a.frame_count
    /\ 10 * a.depth_issues <= a.frame_count
    /\ 10 * a.elbow_issues <= a.frame_count
    /\ 10 * a.good_reps >= 7 * a.total_reps

\* C23: for every analyzer state with frame_count > 0 the summary's
\* recommendations list is non-empty, and it is the generic positive set when
\* no rule triggers.
C23_RecommendationsNeverEmpty ==
    (SummaryReturned /\ analyzer.frame_count > 0) =>
        /\ call.result # NoSummary
        /\ Len(call.result.recommendations) >= 1
        /\ NoRuleTriggers(analyzer) =>
               call.result.recommendations =
                   << "Great form! Keep maintaining this quality",
                      "Consider progressive overload for continued gains" >>

\* A summary of logged frames in which no rule triggers.
C23_Witness ==
    /\ SummaryReturned
    /\ analyzer.frame_count > 0
    /\ analyzer.total_reps > 0
    /\ NoRuleTriggers(analyzer)
    /\ Len(call.result.recommendations) = 2


\* The analyzer of the session: run_live_mode's, or analyze_recorded_video's.
SessionAnalyzer == IF driver \in RecordedDrivers THEN recorded.analyzer ELSE analyzer

SessionEnded == driver \in Drivers \cup RecordedDrivers /\ event = "ended"

\* C24: at the end of a session the summary is displayed and the report is
\* saved iff at least one frame was logged; with no frame logged
\* get_analysis_summary returns None (form_score is not computed), nothing is
\* displayed or saved, and the recorded analysis says that no data was
\* collected.
C24_SummaryIffFramesLogged ==
    SessionEnded =>
        /\ (report.displayed # NoSummary) <=> (SessionAnalyzer.frame_count > 0)
        /\ (report.saved # NoSummary) <=> (SessionAnalyzer.frame_count > 0)
        /\ (SessionAnalyzer.frame_count = 0) =>
               /\ get_analysis_summary(pose_engine(driver), SessionAnalyzer,
                                       exercise_name) = NoSummary
               /\ (driver \in RecordedDrivers) => (report.message # "")
        /\ (SessionAnalyzer.frame_count > 0) =>
               /\ report.displayed.form_score = form_score(SessionAnalyzer)
               /\ report.saved.total_frames = SessionAnalyzer.frame_count

\* A recorded analysis that read frames, logged none and reported no data.
C24_Witness ==
    /\ SessionEnded
    /\ driver \in RecordedDrivers
    /\ frames_read > 0
    /\ SessionAnalyzer.frame_count = 0
    /\ report.displayed = NoSummary


\* n1 is n or n + 1, and n + 1 exactly if cond.
StepsIf(cond, n, n1) == n1 = IF cond THEN n + 1 ELSE n

\* C25: each log_frame call adds exactly 1 to frame_count, adds 1 to exactly
\* one of good_form_frames and bad_form_frames, and adds exactly 1 to each
\* issue category its text matches and nothing to the others ("Keep your back
\* straight!" adds exactly 1 to the back category); so good_form_frames +
\* bad_form_frames = frame_count and no issue count exceeds frame_count.
C25_LogFrameCountsOnce ==
    /\ [](driver = "analyzer" =>
            /\ analyzer.good_form_frames + analyzer.bad_form_frames = analyzer.frame_count
            /\ \A c \in IssueCategories : analyzer.form_issues[c] <= analyzer.frame_count
            /\ analyzer.back_issues <= analyzer.frame_count
            /\ analyzer.depth_issues <= analyzer.frame_count
            /\ analyzer.elbow_issues <= analyzer.frame_count)
    /\ [][(driver = "analyzer" /\ call'.fn = "log_frame") =>
            LET text == call'.args[1]
                good == call'.args[2]
                hit == matched_issues(call.impl, text)
            IN  /\ analyzer'.frame_count = analyzer.frame_count + 1
                /\ StepsIf(good, analyzer.good_form_frames, analyzer'.good_form_frames)
                /\ StepsIf(~good, analyzer.bad_form_frames, analyzer'.bad_form_frames)
                /\ \A c \in IssueCategories :
                       StepsIf(c \in hit, analyzer.form_issues[c], analyzer'.form_issues[c])
                /\ StepsIf("Back not straight" \in hit, analyzer.back_issues,
                           analyzer'.back_issues)
                /\ (text = "Keep your back straight!") =>
                       /\ analyzer'.back_issues = analyzer.back_issues + 1
                       /\ analyzer'.form_issues["Back not straight"] =
                              analyzer.form_issues["Back not straight"] + 1
                /\ analyzer'.total_reps = analyzer.total_reps
                /\ analyzer'.rep_timestamps = analyzer.rep_timestamps
      ]_vars

\* "Keep your back straight!" has been logged twice.
C25_Witness ==
    /\ driver = "analyzer"
    /\ call.fn = "log_frame"
    /\ call.args[1] = "Keep your back straight!"
    /\ analyzer.back_issues = 2
    /\ analyzer.frame_count > 2


NonDecreasing(s) == \A i \in 1..(Len(s) - 1) : s[i] <= s[i + 1]

\* C26: each log_rep call adds exactly 1 to total_reps, adds 1 to good_reps
\* iff the rep is flagged as good form, and appends the current frame index to
\* rep_timestamps; after any sequence of log_frame and log_rep calls
\* good_reps <= total_reps and rep_timestamps is non-decreasing.
C26_LogRepCountsOnce ==
    /\ [](driver = "analyzer" =>
            /\ analyzer.good_reps <= analyzer.total_reps
            /\ Len(analyzer.rep_timestamps) = analyzer.total_reps
            /\ NonDecreasing(analyzer.rep_timestamps)
            /\ \A i \in DOMAIN analyzer.rep_timestamps :
                   analyzer.rep_timestamps[i] <= analyzer.frame_count)
    /\ [][(driver = "analyzer" /\ call'.fn = "log_rep") =>
            /\ analyzer'.total_reps = analyzer.total_reps + 1
            /\ StepsIf(call'.args[1], analyzer.good_reps, analyzer'.good_reps)
            /\ analyzer'.rep_timestamps =
                   Append(analyzer.rep_timestamps, analyzer.frame_count)
            /\ analyzer'.frame_count = analyzer.frame_count
            /\ analyzer'.form_issues = analyzer.form_issues
      ]_vars

\* Two reps logged with frames between them, the second not flagged as good.
C26_Witness ==
    /\ driver = "analyzer"
    /\ call.fn = "log_rep"
    /\ ~call.args[1]
    /\ analyzer.total_reps = 2
    /\ analyzer.good_reps = 1
    /\ analyzer.rep_timestamps[1] + 1 < analyzer.rep_timestamps[2]


\* C27: at the end of a plank session with logged frames the summary displayed
\* and the report saved both carry total_time_held, formatted mm:ss.mmm, in
\* place of total_reps and rep_quality; and the saved report's exercise field
\* is the exercise selected for the session.
C27_PlankReportCarriesTimeHeld ==
    (/\ SessionEnded
     /\ is_time_based(pose_engine(driver), exercise_name)
     /\ SessionAnalyzer.frame_count > 0) =>
        /\ "total_time_held" \in DOMAIN report.displayed
        /\ report.displayed.total_time_held =
               format_duration(SessionAnalyzer.total_duration_held)
        /\ report.displayed.total_time_held.ss < 60
        /\ {"total_reps", "rep_quality"} \cap DOMAIN report.displayed = {}
        /\ report.saved.exercise = exercise_name
        /\ "total_time_held" \in DOMAIN report.saved
        /\ {"total_reps", "rep_quality"} \cap DOMAIN report.saved = {}


(***************************************************************************)
(* Properties of the speech paths and of posture_corrector.py.             *)
(***************************************************************************)
EmptyBuffers == [elbow |-> << >>, back |-> << >>]

\* The values a rule function of posture_corrector.py returns to its caller.
ReturnedValues(r) == << r.rep, r.state, r.fb >>

\* C28: whatever frames were processed earlier, the rule function returns for
\* a frame, rep_count, phase and last feedback the rep_count, phase and
\* feedback it returns for them when no frame was processed before: the
\* smoothing buffers do not influence the result.
C28_ResultIndependentOfEarlierFrames ==
    (driver = "posture_corrector") =>
        \A f \in CorrectorFrames(exercise_name) :
            ReturnedValues(corrector_process(exercise_name, buffers, speech, now, f,
                                             rep_count, phase, last_feedback))
          = ReturnedValues(corrector_process(exercise_name, EmptyBuffers, speech, now, f,
                                             rep_count, phase, last_feedback))

\* The interval the speech path of a driver enforces.
CooldownOf(drv) ==
    IF drv = "posture_corrector" THEN ANNOUNCEMENT_COOLDOWN ELSE SPEECH_COOLDOWN

\* C29: on every speech path empty text is never spoken and two successive
\* emissions are at least the cooldown apart.
C29_SpeechRateLimited ==
    (speech # NoSpeech) =>
        \A i \in 1..Len(speech.spoken) :
            /\ speech.spoken[i].text # ""
            /\ (i > 1) =>
                 speech.spoken[i].at - speech.spoken[i-1].at >= CooldownOf(driver)


(***************************************************************************)
(* Properties of analyze_recorded_video over its video source.             *)
(***************************************************************************)
\* analyze_recorded_video has returned with its report made: for a source
\* that did not open, the error message; after the frame loop, the summary
\* of the frames logged, or the "no data" message when none was.
VideoReported ==
    \/ /\ video.stage = "returned"
       /\ report.message # ""
    \/ /\ video.stage = "ended"
       /\ IF recorded.analyzer.frame_count > 0
          THEN /\ report.displayed # NoSummary
               /\ report.saved.total_frames = recorded.analyzer.frame_count
          ELSE report.message = "No valid data collected. Check video quality and framing."

\* C30: for every video source, analyze_recorded_video comes to its end with
\* the summary of what was logged emitted, or "no data" reported when no
\* frame was logged; no division by zero stops it on the way, whatever frame
\* rate and frame count the source reports.
C30_VideoAnalysisEndsWithSummary == <>VideoReported


(***************************************************************************)
(* Properties of single rule modules and of the logging of the live loop.  *)
(***************************************************************************)
\* C31: in the Russian-twist module a frame twisted left (rotation below the
\* left threshold) handled in the driver's initial phase "up" begins the
\* cycle, that is, returns phase "left"; and a frame twisted right (rotation
\* above the right threshold) handled in phase "left" adds 1 to rep_count.
C31_TwistCycleStartsFromUp ==
    [][ (driver = "none" /\ exercise_name = "russian_twist") =>
           /\ (phase = "up" /\ last_frame'.a < ROTATION_LEFT_THRESHOLD) =>
                 phase' = "left"
           /\ (phase = "left" /\ last_frame'.a > ROTATION_RIGHT_THRESHOLD) =>
                 rep_count' = rep_count + 1 ]_vars


\* The message of the posture check of a module that only sets its feedback
\* when the check fails, "" for a frame on which the check passes.
PostureMessage(ex, f) ==
    CASE ex = "jump_squat" /\ f.b < 80 -> "Keep your back straight!"
      [] ex = "side_plank_up_down" /\ f.b < 160 ->
            "Keep a straight body line! Squeeze glutes."
      [] OTHER -> ""

\* The posture messages of these modules.
PostureMessages(ex) ==
    CASE ex = "jump_squat" -> { "Keep your back straight!" }
      [] ex = "side_plank_up_down" -> { "Keep a straight body line! Squeeze glutes." }
      [] OTHER -> { }

\* C32: whenever a module returns its posture-violation message for a frame,
\* the posture check fails on that frame: the message of an earlier frame is
\* not handed on, through the last-feedback argument, to a frame whose form
\* is valid.
C32_ViolationFeedbackIsOfThisFrame ==
    (driver = "none" /\ event = "processed"
        /\ last_feedback \in PostureMessages(exercise_name)) =>
        PostureMessage(exercise_name, last_frame) = last_feedback


\* The corrective progress cue of a module.
ProgressCue(ex) ==
    CASE ex = "pushup" -> "Push up or lower!"
      [] ex = "barbell_squat" -> "Lower... hit parallel!"

\* C33: the push-up and the barbell-squat module, called in phase up on a frame
\* whose back check passes and whose primary angle lies strictly between the
\* depth threshold 90 and the lockout threshold 160, return the module's
\* corrective progress cue and leave phase and rep_count unchanged.
C33_ProgressCueBetweenThresholds ==
    [][ ( /\ driver = "none"
          /\ exercise_name \in {"pushup", "barbell_squat"}
          /\ phase = "up"
          /\ 90 < last_frame'.a /\ last_frame'.a < 160
          /\ SafetyFeedback(exercise_name, last_frame') = "" ) =>
           /\ last_feedback' = ProgressCue(exercise_name)
           /\ phase' = phase
           /\ rep_count' = rep_count ]_vars


\* The feedback by which process_plank, called with the timer stopped as
\* analyze_recorded_video calls it, reports a detectable frame of valid form.
FoundValid(feedback_text) ==
    feedback_text = "RUNNING: Timer resumed! Maintain this form."

\* C34: in the recorded analysis of a plank every processed frame whose form
\* is valid adds one frame time step to the held duration and every other
\* processed frame adds nothing, and the duration logged is the held duration.
C34_ValidFrameAddsOneStep ==
    [][ (driver = "yolo_recorded" /\ exercise_name = "plank" /\ event' = "processed") =>
           /\ recorded'.rep_counter =
                  recorded.rep_counter
                  + (IF FoundValid(recorded'.feedback_text) THEN frame_time_step ELSE 0)
           /\ recorded'.analyzer.total_duration_held = recorded'.rep_counter ]_vars


\* C35: the issue counters count form problems only: as long as every frame
\* logged in a live session was logged as good form, no issue category has
\* been counted, so the summary's form_issues list is empty.
C35_GoodFramesCountNoIssue ==
    (driver \in Drivers /\ analyzer.bad_form_frames = 0) =>
        \A c \in IssueCategories : analyzer.form_issues[c] = 0


\* The step is a frame of the live loop on which the rule module, given
\* metrics f, returned what the session now holds.
HandledFrame(f) ==
    LET r == exercise_processor(exercise_name, f, FALSE, rep_count, phase, last_feedback)
    IN  /\ event' = "processed"
        /\ rep_count' = r.rep
        /\ phase' = r.state
        /\ last_feedback' = r.fb

\* C36: in a live session a rep completed in a frame on which the module's
\* back/torso check fails is logged with is_good_form false: total_reps grows
\* and good_reps does not.
C36_RepWithFailingFormIsNotGood ==
    [][ \A f \in Frames(exercise_name) :
          ( /\ RepBasedSession
            /\ SafetyFeedback(exercise_name, f) # ""
            /\ HandledFrame(f)
            /\ rep_count' = rep_count + 1 ) =>
             /\ analyzer'.total_reps = analyzer.total_reps + 1
             /\ analyzer'.good_reps = analyzer.good_reps ]_vars


\* C37: in a live rep-based session the analyzer's total_reps equals rep_count
\* after every frame: log_rep is called once in a frame that increments
\* rep_count and in no other frame.
C37_TotalRepsIsRepCount ==
    /\ [](RepBasedSession => analyzer.total_reps = rep_count)
    /\ [][ RepBasedSession =>
             (analyzer'.total_reps - analyzer.total_reps) = (rep_count' - rep_count) ]_vars

\* Two reps were counted, with frames between them that counted none.
C37_Witness ==
    /\ RepBasedSession
    /\ rep_count = 2
    /\ analyzer.total_reps = 2
    /\ analyzer.frame_count > 2


\* C38: process_plank takes a paused timer to running only on a frame whose
\* pose is detectable and whose form is valid; after a frame whose pose is
\* undetectable or whose form is invalid the segment start is PLANK_STOPPED;
\* and such a frame adds to the held total nothing beyond the segment that
\* ran up to it: nothing at all when the timer was already paused.
C38_TimerRunsOnlyOnValidForm ==
    (call.fn = "process_plank" /\ call.done) =>
        /\ ( /\ call.args.segment_start = PLANK_STOPPED
             /\ call.result.start # PLANK_STOPPED ) => ~BadPlankCall(call)
        /\ BadPlankCall(call) =>
              /\ call.result.start = PLANK_STOPPED
              /\ call.result.base = call.args.total_held_duration_base
                    + (IF call.args.segment_start = PLANK_STOPPED THEN 0
                       ELSE call.args.current_time - call.args.segment_start)

\* A paused timer has stayed paused, with the total it had, on a frame whose
\* angles are in range but whose pose is not detectable.
C38_Witness ==
    /\ call.fn = "process_plank"
    /\ call.done
    /\ call.args.segment_start = PLANK_STOPPED
    /\ call.args.total_held_duration_base > 0
    /\ call.args.hip_angle = 170
    /\ call.args.elbow_angle = 71
    /\ call.args.hip_conf <= 5
    /\ call.result.start = PLANK_STOPPED
    /\ call.result.base = call.args.total_held_duration_base


\* The modules whose descent is form-gated.
FormGatedExercises ==
    { "pushup", "barbell_squat", "forward_lunge", "bulgarian_split_squat",
      "overhead_squat", "pike_press", "single_leg_rdl", "deadlift", "jump_squat" }

\* The form condition of the branch of the module that sets the phase to
\* down, for frame f.
DescentGate(ex, f) ==
    CASE ex = "pushup" -> f.b > 160
      [] ex \in {"barbell_squat", "jump_squat"} -> f.b > 80
      [] ex \in {"forward_lunge", "bulgarian_split_squat"} -> f.b > 150
      [] ex = "overhead_squat" -> f.b > 80 /\ f.c > 165
      [] ex = "pike_press" -> f.b < 70
      [] ex = "single_leg_rdl" -> 150 < f.b /\ f.b < 175
      [] ex = "deadlift" -> f.b > 130

\* The form check of the module, the one that sets its corrective message,
\* fails on frame f.
FormCheckFails(ex, f) ==
    CASE ex = "pushup" -> f.b < 160
      [] ex \in {"barbell_squat", "jump_squat"} -> f.b < 80
      [] ex \in {"forward_lunge", "bulgarian_split_squat"} -> f.b < 150
      [] ex = "overhead_squat" -> f.c < 165 \/ f.b < 80
      [] ex = "pike_press" -> f.b > 70 \/ f.b < 45
      [] ex = "single_leg_rdl" -> f.b < 150 \/ f.b > 175
      [] ex = "deadlift" -> f.a < 90 /\ f.b < 130

\* C39: a form-gated module takes the phase from up to down only on a frame
\* on which the gate of its descent passes and its form check does not fail.
C39_DescentOnlyWithPassingForm ==
    [][ ( /\ driver = "none"
          /\ exercise_name \in FormGatedExercises
          /\ phase = "up"
          /\ phase' = "down" ) =>
           /\ DescentGate(exercise_name, last_frame')
           /\ ~FormCheckFails(exercise_name, last_frame') ]_vars


\* The threads of posture_corrector.py that are inside say / runAndWait of
\* the shared tts_engine.
SpeakingThreads == Len(speech.spoken) - speech.finished

\* C40: in posture_corrector.py at most one speech thread uses the shared
\* TTS engine at any time.
C40_OneSpeechThreadAtATime ==
    (driver = "posture_corrector") => SpeakingThreads <= 1

====
